---- MODULE Spec2Model ----
(***************************************************************************)
(* Model of scripts/validate-gko-crds.py: the GKOValidator rule engine and  *)
(* the main() driver that walks a file or a directory, accumulates error    *)
(* and warning findings, prints them and sets the process exit status.      *)
(*                                                                          *)
(* Decoded YAML values are trees.  A Python operation that raises on the    *)
(* value it is given (.get on a non-dict, .startswith on a non-str,         *)
(* re.match on a non-str, iterating a non-iterable) is modelled as an       *)
(* uncaught exception: nothing in the script catches it, so the process     *)
(* ends with a traceback and exit status 1.                                 *)
(***************************************************************************)
EXTENDS Integers, Sequences, FiniteSets, TLC

(***************************************************************************)
(* Bounds of the model.                                                     *)
(***************************************************************************)
\* files found by the two rglob passes of one run, together
MaxFiles == 2
\* documents evaluated in one run (over all its files)
MaxDocs == 2

(***************************************************************************)
(* Decoded YAML values.                                                     *)
(***************************************************************************)
Null == [t |-> "null"]
Str(s) == [t |-> "str", s |-> s]
Num(n) == [t |-> "num", n |-> n]
Bool(b) == [t |-> "bool", b |-> b]
List(l) == [t |-> "list", l |-> l]
Map(m) == [t |-> "map", m |-> m]
EmptyMap == Map(<<>>)
EmptyList == List(<<>>)

\* The characters of the strings the model uses (TLC strings cannot be
\* indexed); startswith and the version regex work on these characters.
Chars(s) ==
    CASE s = "" -> <<>>
      [] s = "gravitee.io/v1alpha1" ->
            <<"g","r","a","v","i","t","e","e",".","i","o","/","v","1","a","l","p","h","a","1">>
      [] s = "gravitee.io" -> <<"g","r","a","v","i","t","e","e",".","i","o">>
      [] s = "v1" -> <<"v","1">>
      [] s = "1.2.3" -> <<"1",".","2",".","3">>
      [] s = "10.20.30" -> <<"1","0",".","2","0",".","3","0">>
      [] s = "1.2" -> <<"1",".","2">>
      [] s = "1.2.3.4" -> <<"1",".","2",".","3",".","4">>
      [] s = "v1.2.3" -> <<"v","1",".","2",".","3">>
      [] s = "1.2.3\n" -> <<"1",".","2",".","3","\n">>
      [] s = "1..3" -> <<"1",".",".","3">>
      [] s = "/a" -> <<"/","a">>
      [] s = "a" -> <<"a">>
      [] s = "a/" -> <<"a","/">>
      [] s = "http://b" -> <<"h","t","t","p",":","/","/","b">>
      [] s = "https://b" -> <<"h","t","t","p","s",":","/","/","b">>
      [] s = "http:/b" -> <<"h","t","t","p",":","/","b">>
      [] s = "b:80" -> <<"b",":","8","0">>
      [] s = "x" -> <<"x">>
      [] s = "http://a.svc.cluster.local" ->
            <<"h","t","t","p",":","/","/","a",".","s","v","c",".","c","l","u","s","t",
            "e","r",".","l","o","c","a","l">>
      [] s = "http://External.svc.cluster.local" ->
            <<"h","t","t","p",":","/","/","E","x","t","e","r","n","a","l",".","s","v",
            "c",".","c","l","u","s","t","e","r",".","l","o","c","a","l">>

(***************************************************************************)
(* Python semantics of the operations the validator applies to values.      *)
(***************************************************************************)
\* isinstance(v, dict)
IsDict(v) == v.t = "map"

\* isinstance(v, str)
IsStr(v) == v.t = "str"

\* bool(v): None, '', 0, False, [] and {} are falsy
Truthy(v) ==
    CASE v.t = "null" -> FALSE
      [] v.t = "str" -> v.s # ""
      [] v.t = "num" -> v.n # 0
      [] v.t = "bool" -> v.b
      [] v.t = "list" -> v.l # <<>>
      [] v.t = "map" -> DOMAIN v.m # {}

\* d.get(key, default), for a dict d
DictGet(d, key, default) == IF key \in DOMAIN d.m THEN d.m[key] ELSE default

\* v == 'literal'
EqStr(v, lit) == IsStr(v) /\ v.s = lit

\* v in [literals]
InList(v, lits) == IsStr(v) /\ v.s \in lits

\* s.startswith(prefix), on characters
StartsWith(c, prefix) ==
    /\ Len(c) >= Len(prefix)
    /\ SubSeq(c, 1, Len(prefix)) = prefix

\* the literal prefixes the validator tests with startswith
GraviteePrefix == <<"g","r","a","v","i","t","e","e",".","i","o","/">>
Slash == <<"/">>
HttpPrefix == <<"h","t","t","p",":","/","/">>
HttpsPrefix == <<"h","t","t","p","s",":","/","/">>

RECURSIVE SetToSeq(_)
SetToSeq(S) ==
    IF S = {} THEN <<>>
    ELSE LET x == CHOOSE y \in S : TRUE IN <<x>> \o SetToSeq(S \ {x})

\* can `for x in v` start?  (lists, strings and dicts iterate; None, numbers
\* and booleans raise TypeError)
Iterable(v) == v.t \in {"list", "str", "map"}

\* the items `for x in v` yields: list items, the characters of a string,
\* the keys of a dict
Items(v) ==
    CASE v.t = "list" -> v.l
      [] v.t = "str" -> [i \in 1..Len(Chars(v.s)) |-> Str(Chars(v.s)[i])]
      [] v.t = "map" -> [i \in 1..Cardinality(DOMAIN v.m) |-> Str(SetToSeq(DOMAIN v.m)[i])]

Digits == {"0","1","2","3","4","5","6","7","8","9"}

\* index of the first character at or after i that is not a digit (\d+ is
\* greedy and what follows it in the pattern is never a digit)
RECURSIVE SkipDigits(_, _)
SkipDigits(c, i) ==
    IF i <= Len(c) /\ c[i] \in Digits THEN SkipDigits(c, i + 1) ELSE i

\* re.match(r'^\d+\.\d+\.\d+$', s): '$' also matches before a final newline
SemverMatch(c) ==
    LET i1 == SkipDigits(c, 1)
        i2 == SkipDigits(c, i1 + 1)
        i3 == SkipDigits(c, i2 + 1)
    IN  /\ i1 > 1
        /\ i1 <= Len(c) /\ c[i1] = "."
        /\ i2 > i1 + 1
        /\ i2 <= Len(c) /\ c[i2] = "."
        /\ i3 > i2 + 1
        /\ \/ i3 = Len(c) + 1
           \/ i3 = Len(c) /\ c[i3] = "\n"

(***************************************************************************)
(* Findings and the result of running a piece of the validator: the         *)
(* messages it appended to self.errors and self.warnings, and whether it    *)
(* ended by raising.                                                        *)
(***************************************************************************)
Finding(code, subject, arg) == [code |-> code, subject |-> subject, arg |-> arg]

\* a dotted path, as the list of keys path.split('.') gives
Path(keys) == [t |-> "path", p |-> keys]

Result(errs, warns, exc) == [errs |-> errs, warns |-> warns, exc |-> exc]
Nothing == Result(<<>>, <<>>, FALSE)
Raise == Result(<<>>, <<>>, TRUE)
Err(f) == Result(<<f>>, <<>>, FALSE)
\* a variant that records a warning in the error list as well
Warn_AlsoError(f) == Result(<<f>>, <<f>>, FALSE)
Warn(f) == Result(<<>>, <<f>>, FALSE)

\* r1 ; r2 -- r2 runs only if r1 did not raise
Then(r1, r2) ==
    IF r1.exc THEN r1
    ELSE Result(r1.errs \o r2.errs, r1.warns \o r2.warns, r2.exc)

\* the results of the statements (or loop iterations) rs, run in order
RECURSIVE Chain(_)
Chain(rs) == IF rs = <<>> THEN Nothing ELSE Then(Head(rs), Chain(Tail(rs)))

(***************************************************************************)
(* The rule catalogue (class constants of GKOValidator).                    *)
(***************************************************************************)
REQUIRED_API_DEFINITION_FIELDS ==
    << <<"spec", "name">>, <<"spec", "version">>, <<"spec", "contextRef">>,
       <<"spec", "proxy", "virtualHosts">>, <<"spec", "proxy", "groups">> >>

REQUIRED_API_PLAN_FIELDS ==
    << <<"spec", "name">>, <<"spec", "apiRef">>, <<"spec", "contextRef">>,
       <<"spec", "security">>, <<"spec", "status">> >>

VALID_SECURITY_TYPES == {"API_KEY", "JWT", "OAUTH2", "KEY_LESS", "MTLS"}
VALID_LIFECYCLE_STATES == {"CREATED", "PUBLISHED", "UNPUBLISHED", "DEPRECATED"}
VALID_PLAN_STATUSES == {"STAGING", "PUBLISHED", "DEPRECATED", "CLOSED"}

\* the policy types the plan check accepts as rate limiting
RATE_LIMIT_POLICIES == {"rate-limit", "quota"}

(***************************************************************************)
(* GKOValidator._get_nested_value                                           *)
(***************************************************************************)
RECURSIVE GetNestedValue(_, _)
GetNestedValue(value, keys) ==
    IF keys = <<>> THEN value
    ELSE IF IsDict(value)
         THEN GetNestedValue(DictGet(value, Head(keys), Null), Tail(keys))
         ELSE Null

\* the "Check required fields" loop of _validate_api_definition and
\* _validate_api_plan: one error per path whose value is falsy
RequiredFields(doc, name, fields) ==
    LET missing == SelectSeq(fields, LAMBDA p : ~Truthy(GetNestedValue(doc, p)))
    IN  Result([i \in 1..Len(missing) |->
                   Finding("MissingRequiredField", name, <<Path(missing[i])>>)],
               <<>>, FALSE)

(***************************************************************************)
(* GKOValidator._validate_policy and _validate_flow                         *)
(***************************************************************************)
ValidatePolicy(policy, api_name, flow_name) ==
    IF ~IsDict(policy) THEN Raise
    ELSE LET policy_name == DictGet(policy, "name", Str("unnamed"))
             policy_type == DictGet(policy, "policy", Str(""))
         IN  Then(IF ~Truthy(policy_type)
                  THEN Err(Finding("PolicyMissingType", api_name,
                                   <<policy_name, flow_name>>))
                  ELSE Nothing,
                  IF ~Truthy(DictGet(policy, "configuration", Null))
                  THEN Warn(Finding("PolicyNoConfiguration", api_name, <<policy_name>>))
                  ELSE Nothing)

\* flow.get('pre', []) + flow.get('post', []), then the loop over it:
\* list + list and str + str concatenate, anything else raises TypeError
ValidatePolicies(pre, post, api_name, flow_name) ==
    IF ~(pre.t = post.t /\ pre.t \in {"list", "str"}) THEN Raise
    ELSE LET policies == Items(pre) \o Items(post)
         IN  Chain([i \in 1..Len(policies) |->
                       ValidatePolicy(policies[i], api_name, flow_name)])

ValidateFlow(flow, api_name) ==
    IF ~IsDict(flow) THEN Raise
    ELSE LET flow_name == DictGet(flow, "name", Str("unnamed"))
             path_operator == DictGet(flow, "pathOperator", EmptyMap)
         IN  IF ~IsDict(path_operator) THEN Raise
             ELSE Then(IF ~Truthy(DictGet(path_operator, "path", Str("")))
                       THEN Warn(Finding("FlowNoPath", api_name, <<flow_name>>))
                       ELSE Nothing,
                       ValidatePolicies(DictGet(flow, "pre", EmptyList),
                                        DictGet(flow, "post", EmptyList),
                                        api_name, flow_name))

(***************************************************************************)
(* GKOValidator._validate_api_definition, block by block                    *)
(***************************************************************************)
\* "Validate version format"
VersionFormat(spec, name) ==
    LET version == DictGet(spec, "version", Str(""))
    IN  IF ~Truthy(version) THEN Nothing
        ELSE IF ~IsStr(version) THEN Raise
        ELSE IF ~SemverMatch(Chars(version.s))
             THEN Warn(Finding("VersionNotSemver", name, <<version>>))
             ELSE Nothing

\* "Validate lifecycle state"
LifecycleState(spec, name) ==
    LET lifecycle_state == DictGet(spec, "lifecycleState", Null)
    IN  IF Truthy(lifecycle_state) /\ ~InList(lifecycle_state, VALID_LIFECYCLE_STATES)
        THEN Err(Finding("InvalidLifecycleState", name, <<lifecycle_state>>))
        ELSE Nothing

\* one iteration of `for vh in virtual_hosts`
VirtualHost(vh, name) ==
    IF ~IsDict(vh) THEN Raise
    ELSE LET path == DictGet(vh, "path", Str(""))
         IN  IF ~IsStr(path) THEN Raise
             ELSE IF ~StartsWith(Chars(path.s), Slash)
                  THEN Err(Finding("VirtualHostPath", name, <<path>>))
                  ELSE Nothing

\* one iteration of `for endpoint in endpoints`
Endpoint(endpoint, name) ==
    IF ~IsDict(endpoint) THEN Raise
    ELSE LET target == DictGet(endpoint, "target", Str(""))
         IN  IF ~Truthy(target)
             THEN Err(Finding("EndpointMissingTarget", name, <<>>))
             ELSE IF ~IsStr(target) THEN Raise
             ELSE IF ~(\/ StartsWith(Chars(target.s), HttpPrefix)
                       \/ StartsWith(Chars(target.s), HttpsPrefix))
                  THEN Warn(Finding("EndpointTargetNotAbsolute", name, <<target>>))
                  ELSE Nothing

\* one iteration of `for group in groups`
EndpointGroup(group, name) ==
    IF ~IsDict(group) THEN Raise
    ELSE LET endpoints == DictGet(group, "endpoints", EmptyList)
         IN  Then(IF ~Truthy(endpoints)
                  THEN Warn(Finding("GroupNoEndpoints", name,
                                    <<DictGet(group, "name", Str("unknown"))>>))
                  ELSE Nothing,
                  IF ~Iterable(endpoints) THEN Raise
                  ELSE Chain([i \in 1..Len(Items(endpoints)) |->
                                 Endpoint(Items(endpoints)[i], name)]))

\* "Validate proxy configuration" and "Validate endpoint groups"
ProxyConfiguration(spec, name) ==
    LET proxy == DictGet(spec, "proxy", EmptyMap)
    IN  IF ~IsDict(proxy) THEN Raise
        ELSE LET virtual_hosts == DictGet(proxy, "virtualHosts", EmptyList)
                 groups == DictGet(proxy, "groups", EmptyList)
             IN  Then(IF ~Iterable(virtual_hosts) THEN Raise
                      ELSE Chain([i \in 1..Len(Items(virtual_hosts)) |->
                                     VirtualHost(Items(virtual_hosts)[i], name)]),
                      IF ~Iterable(groups) THEN Raise
                      ELSE Chain([i \in 1..Len(Items(groups)) |->
                                     EndpointGroup(Items(groups)[i], name)]))

\* "Validate flows"
Flows(spec, name) ==
    LET flows == DictGet(spec, "flows", EmptyList)
    IN  IF ~Iterable(flows) THEN Raise
        ELSE Chain([i \in 1..Len(Items(flows)) |-> ValidateFlow(Items(flows)[i], name)])

\* "Validate analytics configuration"
Analytics(spec, name) ==
    LET analytics == DictGet(spec, "analytics", EmptyMap)
    IN  IF ~IsDict(analytics) THEN Raise
        ELSE IF ~Truthy(DictGet(analytics, "enabled", Bool(FALSE))) THEN Nothing
        ELSE LET logging == DictGet(analytics, "logging", EmptyMap)
             IN  IF ~IsDict(logging) THEN Raise
                 ELSE IF EqStr(DictGet(logging, "content", Null), "PAYLOADS")
                      THEN Warn(Finding("PayloadLogging", name, <<>>))
                      ELSE Nothing

ValidateApiDefinition(doc, name) ==
    LET spec == DictGet(doc, "spec", EmptyMap)
    IN  Then(RequiredFields(doc, name, REQUIRED_API_DEFINITION_FIELDS),
             IF ~IsDict(spec) THEN Raise
             ELSE Chain(<< VersionFormat(spec, name),
                           LifecycleState(spec, name),
                           ProxyConfiguration(spec, name),
                           Flows(spec, name),
                           Analytics(spec, name) >>))

(***************************************************************************)
(* GKOValidator._validate_api_plan                                          *)
(***************************************************************************)
\* "Validate security type"
SecurityType(security, name) ==
    IF Truthy(security) /\ ~InList(security, VALID_SECURITY_TYPES)
    THEN Err(Finding("InvalidSecurityType", name, <<security>>))
    ELSE Nothing

\* "Validate plan status"
PlanStatus(status, name) ==
    IF Truthy(status) /\ ~InList(status, VALID_PLAN_STATUSES)
    THEN Err(Finding("InvalidPlanStatus", name, <<status>>))
    ELSE Nothing

\* the inner loop `for policy in flow.get('pre', [])` with its break:
\* "found", "none", or "raise" when an entry before any match is not a dict
RECURSIVE ScanPolicies(_)
ScanPolicies(policies) ==
    IF policies = <<>> THEN "none"
    ELSE IF ~IsDict(Head(policies)) THEN "raise"
    ELSE IF InList(DictGet(Head(policies), "policy", Null), RATE_LIMIT_POLICIES)
         THEN "found"
         ELSE ScanPolicies(Tail(policies))

\* the policies of a flow the rate-limit check looks at
ScannedPolicies(flow) == DictGet(flow, "pre", EmptyList)

\* the outer loop `for flow in flows`: has_rate_limit after the loop, and
\* whether the loop raised; the break leaves only the inner loop
RECURSIVE ScanFlows(_, _)
ScanFlows(flows, has_rate_limit) ==
    IF flows = <<>> THEN [has |-> has_rate_limit, exc |-> FALSE]
    ELSE IF ~IsDict(Head(flows)) \/ ~Iterable(ScannedPolicies(Head(flows)))
         THEN [has |-> has_rate_limit, exc |-> TRUE]
    ELSE LET found == ScanPolicies(Items(ScannedPolicies(Head(flows))))
         IN  IF found = "raise" THEN [has |-> has_rate_limit, exc |-> TRUE]
             ELSE ScanFlows(Tail(flows), has_rate_limit \/ found = "found")

\* a variant without the KEY_LESS exemption
NeedsRateLimitWarning_NoExemption(has_rate_limit, security) == ~has_rate_limit

\* the condition of the final warning of _validate_api_plan
NeedsRateLimitWarning(has_rate_limit, security) ==
    ~has_rate_limit /\ ~EqStr(security, "KEY_LESS")

\* "Check for rate limiting in plans"
RateLimiting(spec, security, name) ==
    LET flows == DictGet(spec, "flows", EmptyList)
    IN  IF ~Iterable(flows) THEN Raise
        ELSE LET scan == ScanFlows(Items(flows), FALSE)
             IN  IF scan.exc THEN Raise
                 ELSE IF NeedsRateLimitWarning(scan.has, security)
                      THEN Warn(Finding("PlanNoRateLimit", name, <<>>))
                      ELSE Nothing

ValidateApiPlan(doc, name) ==
    LET spec == DictGet(doc, "spec", EmptyMap)
    IN  Then(RequiredFields(doc, name, REQUIRED_API_PLAN_FIELDS),
             IF ~IsDict(spec) THEN Raise
             ELSE LET security == DictGet(spec, "security", Null)
                      status == DictGet(spec, "status", Null)
                  IN  Chain(<< SecurityType(security, name),
                                PlanStatus(status, name),
                                RateLimiting(spec, security, name) >>))

(***************************************************************************)
(* GKOValidator._validate_management_context                                *)
(***************************************************************************)
ValidateManagementContext(doc, name) ==
    LET spec == DictGet(doc, "spec", EmptyMap)
    IN  IF ~IsDict(spec) THEN Raise
        ELSE Then(IF ~Truthy(DictGet(spec, "baseUrl", Null))
                  THEN Err(Finding("MissingRequiredField", name,
                                   <<Path(<<"spec", "baseUrl">>)>>))
                  ELSE Nothing,
                  LET auth == DictGet(spec, "auth", EmptyMap)
                  IN  IF ~IsDict(auth) THEN Raise
                      ELSE IF ~Truthy(DictGet(auth, "secretRef", Null))
                           THEN Err(Finding("MissingAuthSecretRef", name, <<>>))
                           ELSE Nothing)

(***************************************************************************)
(* GKOValidator._validate_document                                          *)
(***************************************************************************)
\* a variant that accepts every namespace
IsGKOApiVersion_AnyNamespace(api_version) == TRUE

\* `api_version.startswith('gravitee.io/')`, for a string api_version
IsGKOApiVersion(api_version) == StartsWith(Chars(api_version.s), GraviteePrefix)

ValidateDocument(doc) ==
    IF ~IsDict(doc) THEN Nothing
    ELSE LET api_version == DictGet(doc, "apiVersion", Str(""))
             kind == DictGet(doc, "kind", Str(""))
         IN  IF ~IsStr(api_version) THEN Raise
             ELSE IF ~IsGKOApiVersion(api_version) THEN Nothing
             ELSE LET metadata == DictGet(doc, "metadata", EmptyMap)
                  IN  IF ~IsDict(metadata) THEN Raise
                      ELSE LET name == DictGet(metadata, "name", Str("unknown"))
                           IN  IF EqStr(kind, "ApiDefinition")
                               THEN ValidateApiDefinition(doc, name)
                               ELSE IF EqStr(kind, "ApiPlan")
                               THEN ValidateApiPlan(doc, name)
                               ELSE IF EqStr(kind, "ManagementContext")
                               THEN ValidateManagementContext(doc, name)
                               ELSE Nothing

\* a variant without the isinstance check: doc.get raises on a list or a scalar
EvaluateDocument_NoTypeCheck(doc) ==
    IF doc = Null THEN Nothing
    ELSE IF ~IsDict(doc) THEN Raise
    ELSE ValidateDocument(doc)

\* one iteration of the loop of validate_file: None documents are skipped
EvaluateDocument(doc) == IF doc = Null THEN Nothing ELSE ValidateDocument(doc)

(***************************************************************************)
(* The documents the runs of the model draw from: well-formed resources of  *)
(* the three kinds and variations of them, field by field, over absent,     *)
(* empty, valid, invalid and wrongly shaped values; unrelated documents;    *)
(* documents that are not maps.                                             *)
(***************************************************************************)
\* marks a key left out of a map
Absent == [t |-> "absent"]

Without(r, k) == [x \in (DOMAIN r) \ {k} |-> r[x]]
With(r, k, v) == [x \in (DOMAIN r) \cup {k} |-> IF x = k THEN v ELSE r[x]]
Vary(r, k, v) == IF v = Absent THEN Without(r, k) ELSE With(r, k, v)

GKOApiVersion == Str("gravitee.io/v1alpha1")
NamedMetadata == Map([name |-> Str("api")])
ContextRef == Map([name |-> Str("ctx")])
Configuration == Map([rate |-> Num(10)])

VirtualHostEntry(path) == Map(Vary([host |-> Str("h")], "path", path))
EndpointEntry(target) == Map(Vary([name |-> Str("ep")], "target", target))
GroupEntry(endpoints) == Map(Vary([name |-> Str("g")], "endpoints", endpoints))
PolicyEntry(type, configuration) ==
    Map(Vary(Vary([name |-> Str("p")], "policy", type), "configuration", configuration))
FlowEntry(pathOperator, pre, post) ==
    Map(Vary(Vary(Vary([name |-> Str("f")], "pathOperator", pathOperator), "pre", pre),
             "post", post))
PathOperator == Map([path |-> Str("/a"), operator |-> Str("STARTS_WITH")])

BaseProxy ==
    [virtualHosts |-> List(<<VirtualHostEntry(Str("/a"))>>),
     groups |-> List(<<GroupEntry(List(<<EndpointEntry(Str("http://b"))>>))>>)]

BaseDefinitionSpec ==
    [name |-> Str("n"), version |-> Str("1.2.3"), contextRef |-> ContextRef,
     proxy |-> Map(BaseProxy)]

RateLimitPolicy == PolicyEntry(Str("rate-limit"), Configuration)
QuotaPolicy == PolicyEntry(Str("quota"), Configuration)
CorsPolicy == PolicyEntry(Str("cors"), Configuration)

BasePlanSpec ==
    [name |-> Str("n"), apiRef |-> Map([name |-> Str("api")]), contextRef |-> ContextRef,
     security |-> Str("API_KEY"), status |-> Str("PUBLISHED"),
     flows |-> List(<<FlowEntry(PathOperator, List(<<RateLimitPolicy>>), Absent)>>)]

BaseContextSpec ==
    [baseUrl |-> Str("https://b"), auth |-> Map([secretRef |-> Map([name |-> Str("s")])])]

Resource(apiVersion, kind, metadata, spec) ==
    Map(Vary(Vary(Vary(Vary(<<>>, "apiVersion", apiVersion), "kind", kind),
                  "metadata", metadata), "spec", spec))

Definition(spec) == Resource(GKOApiVersion, Str("ApiDefinition"), NamedMetadata, Map(spec))
Plan(spec) == Resource(GKOApiVersion, Str("ApiPlan"), NamedMetadata, Map(spec))
Context(spec) == Resource(GKOApiVersion, Str("ManagementContext"), NamedMetadata, Map(spec))

VersionValues ==
    {Absent, Null, Str(""), Str("1.2.3"), Str("10.20.30"), Str("1.2"), Str("1.2.3.4"),
     Str("v1.2.3"), Str("1.2.3\n"), Str("1..3"), Num(1)}

DefinitionFieldDocs ==
    {Definition(Vary(BaseDefinitionSpec, "version", v)) : v \in VersionValues}
    \cup {Definition(Vary(With(BaseDefinitionSpec, "lifecycleState", Str("STARTED")),
                          "version", v)) :
            v \in {Absent, Str("1.2.3"), Str("1.2"), Num(1)}}
    \cup {Definition(With(BaseDefinitionSpec, "lifecycleState", l)) :
            l \in {Null, Str(""), Str("PUBLISHED"), Str("published")}}
    \cup {Definition(Vary(BaseDefinitionSpec, k, v)) :
            k \in {"name", "contextRef"}, v \in {Absent, Null, Str("")}}
    \cup {Definition(Vary(BaseDefinitionSpec, "proxy", v)) :
            v \in {Absent, Null, Str("x"), EmptyMap}}

VirtualHostsValues ==
    {Absent, Null, EmptyList, Str("x"),
     List(<<VirtualHostEntry(Absent)>>),
     List(<<VirtualHostEntry(Str("a"))>>),
     List(<<VirtualHostEntry(Str("/a")), VirtualHostEntry(Str("a/"))>>),
     List(<<VirtualHostEntry(Num(1))>>),
     List(<<Str("x")>>)}

EndpointsValues ==
    {Absent, Null, EmptyList}
    \cup {List(<<EndpointEntry(t)>>) :
            t \in {Absent, Null, Str(""), Str("https://b"), Str("http:/b"), Str("b:80"), Num(1)}}
    \cup {List(<<EndpointEntry(Str("b:80")), EndpointEntry(Absent)>>),
          List(<<Str("x")>>)}

GroupsValues ==
    {Absent, Null, EmptyList, List(<<Str("x")>>)}
    \cup {List(<<GroupEntry(e)>>) : e \in EndpointsValues}

DefinitionProxyDocs ==
    {Definition(With(BaseDefinitionSpec, "proxy", Map(Vary(BaseProxy, "virtualHosts", v)))) :
        v \in VirtualHostsValues}
    \cup {Definition(With(BaseDefinitionSpec, "proxy", Map(Vary(BaseProxy, "groups", g)))) :
            g \in GroupsValues}

PoliciesValues ==
    {Absent, Null, EmptyList,
     List(<<RateLimitPolicy>>),
     List(<<PolicyEntry(Absent, Configuration)>>),
     List(<<PolicyEntry(Str("cors"), Absent)>>),
     List(<<PolicyEntry(Str(""), Absent)>>),
     List(<<Str("x")>>)}

DefinitionFlowDocs ==
    {Definition(With(BaseDefinitionSpec, "flows", List(<<FlowEntry(PathOperator, pre, post)>>))) :
        pre \in PoliciesValues, post \in {Absent, List(<<PolicyEntry(Absent, Absent)>>)}}
    \cup {Definition(With(BaseDefinitionSpec, "flows", List(<<FlowEntry(po, Absent, Absent)>>))) :
            po \in {Absent, Null, EmptyMap}}
    \cup {Definition(With(BaseDefinitionSpec, "flows", f)) :
            f \in {Null, EmptyList, List(<<Str("x")>>)}}

DefinitionAnalyticsDocs ==
    {Definition(With(BaseDefinitionSpec, "analytics", a)) :
        a \in {Null,
               Map([enabled |-> Bool(TRUE), logging |-> Map([content |-> Str("PAYLOADS")])]),
               Map([enabled |-> Bool(FALSE), logging |-> Map([content |-> Str("PAYLOADS")])]),
               Map([enabled |-> Bool(TRUE), logging |-> Map([content |-> Str("HEADERS")])]),
               Map([enabled |-> Bool(TRUE)]),
               Map([enabled |-> Bool(TRUE), logging |-> Null])}}

SecurityValues ==
    {Absent, Null, Str(""), Str("API_KEY"), Str("KEY_LESS"), Str("BASIC"), Num(1)}

PlanFlowsValues ==
    {Absent, Null, EmptyList, List(<<Str("x")>>)}
    \cup {List(<<FlowEntry(PathOperator, pre, Absent)>>) :
            pre \in {Absent, List(<<QuotaPolicy>>), List(<<CorsPolicy>>),
                     List(<<CorsPolicy, RateLimitPolicy>>),
                     List(<<RateLimitPolicy, Str("x")>>), List(<<Str("x")>>)}}
    \cup {List(<<FlowEntry(PathOperator, pre, List(<<QuotaPolicy>>))>>) :
            pre \in {Absent, List(<<CorsPolicy>>), List(<<RateLimitPolicy>>)}}
    \cup {List(<<FlowEntry(PathOperator, List(<<CorsPolicy>>), Absent),
                 FlowEntry(PathOperator, List(<<RateLimitPolicy>>), Absent)>>),
          List(<<FlowEntry(PathOperator, List(<<PolicyEntry(Absent, Absent)>>),
                           List(<<PolicyEntry(Absent, Absent)>>))>>)}

PlanDocs ==
    {Plan(Vary(Vary(BasePlanSpec, "security", s), "flows", f)) :
        s \in {Absent, Str("API_KEY"), Str("KEY_LESS")}, f \in PlanFlowsValues}
    \cup {Plan(Vary(BasePlanSpec, "security", s)) : s \in SecurityValues}
    \cup {Plan(Vary(BasePlanSpec, "status", s)) :
            s \in {Absent, Null, Str(""), Str("OPEN"), Str("CLOSED")}}
    \cup {Plan(Vary(BasePlanSpec, k, v)) :
            k \in {"name", "apiRef", "contextRef"}, v \in {Absent, Str("")}}

ContextDocs ==
    {Context(Vary(Vary(BaseContextSpec, "baseUrl", b), "auth", a)) :
        b \in {Absent, Str("https://b")},
        a \in {Absent, Null, EmptyMap, Map([secretRef |-> Map([name |-> Str("s")])])}}

\* the envelope of a resource: any apiVersion and kind, with and without a
\* name, a metadata map, a spec map
EnvelopeDocs ==
    {Resource(a, k, NamedMetadata, Absent) :
        a \in {Absent, Null, Str(""), Str("v1"), Str("gravitee.io"), Num(1)},
        k \in {Absent, Str("ApiDefinition"), Str("Pod")}}
    \cup {Resource(a, Str("ApiDefinition"), NamedMetadata, Map(BaseDefinitionSpec)) :
            a \in {Absent, Str("v1"), Num(1)}}
    \cup {Resource(GKOApiVersion, k, m, Absent) :
            k \in {Absent, Null, Str("ApiDefinition"), Str("ApiPlan"),
                   Str("ManagementContext"), Str("Pod")},
            m \in {Absent, Null, EmptyMap}}
    \cup {Resource(GKOApiVersion, k, NamedMetadata, s) :
            k \in {Str("ApiDefinition"), Str("ApiPlan"), Str("ManagementContext"),
                   Str("Pod")},
            s \in {Null, Str("x")}}

\* definitions with findings of several checks at once
DefinitionMixedDocs ==
    {Definition(Vary(With(With(BaseDefinitionSpec, "lifecycleState", Str("STARTED")),
                          "proxy",
                          Map([virtualHosts |-> List(<<VirtualHostEntry(Str("a"))>>),
                               groups |-> List(<<GroupEntry(EmptyList)>>)])),
                     "version", v)) :
        v \in {Absent, Str("1.2")}}

\* what yaml.safe_load_all yields that is not a map
NonMapDocs == {Null, EmptyList, List(<<Str("x")>>), Str("x"), Num(1)}

Docs ==
    DefinitionFieldDocs \cup DefinitionProxyDocs \cup DefinitionFlowDocs
    \cup DefinitionAnalyticsDocs \cup PlanDocs \cup ContextDocs
    \cup EnvelopeDocs \cup NonMapDocs \cup {EmptyMap} \cup DefinitionMixedDocs

(***************************************************************************)
(* The run of main(): state.                                                *)
(***************************************************************************)
VARIABLES
    pc,           \* "main", "files" (between validate_file calls), "docs" (in the
                  \* loop of validate_file), "exit" (results printed), "done"
    mode,         \* "none", "file" or "dir": what sys.argv[1] turned out to be
    filesLeft,    \* files main() has still to hand to validate_file: the single
                  \* file, or what the *.yaml pass and then the *.yml pass find
    fileNo,       \* number of validate_file calls made
    docsLeft,     \* documents of the current file the loop has not reached yet
    doc,          \* the document the loop of validate_file evaluated last (NoDoc
                  \* outside the loop and before its first iteration)
    errors,       \* validator.errors
    warnings,     \* validator.warnings
    errBefore,    \* Len(errors) when the evaluation of doc began (outside the
                  \* loop: when the last step that could append began)
    warnBefore,   \* Len(warnings) at that moment
    evaluated,    \* documents evaluated in this run
    targets,      \* how many of them were resources of this validator
    decodeFailures, \* validate_file calls that ended in yaml.YAMLError
    lastReturn,   \* what the last validate_file call returned: "none", "True", "False"
    report,       \* <<>> until print_results ran, then what it printed
    outcome,      \* "running", "usage", "not_found", "finished", "traceback"
    exitStatus,   \* process exit status, -1 while the process runs
    given,        \* the input of a repeated run: sys.argv and the files under the
                  \* path, as the file system holds them (Unrecorded otherwise)
    run,          \* which run of the validator on that input this is: 1 or 2
    first,        \* what the first run ended with, once the second has started
    \* check-performance-thresholds.py
    perfPc,       \* "idle", "main", "p50", "p95", "rate", "return", "done"
    data,         \* the decoded k6 summary (NoData before json.load)
    passed,       \* the local `passed` of check_thresholds
    perfPrinted,  \* the lines printed so far
    perfStatus,   \* process exit status, -1 while the process runs
    \* check-sensitive-data.py
    scanPc,       \* "idle", "main", "files", "lines", "report", "done"
    scanFilesLeft, \* files check_directory has still to hand to check_file
    scanFileNo,   \* number of check_file calls made
    linesLeft,    \* lines of the current file the loop has not reached yet
    lineNo,       \* line_num of the line examined last
    linesRead,    \* lines examined in this run
    findings,     \* checker.findings
    reported,     \* unique_findings as print_results printed them
    scanOutcome,  \* "running", "usage", "not_found", "finished"
    scanStatus,   \* process exit status, -1 while the process runs
    \* validate-policies.py
    policyPc,     \* "idle", "main", "files", "docs", "exit", "done"
    policyFilesLeft, \* files validate_directory has still to hand to validate_file
    policyFileNo, \* number of validate_file calls made
    policyDocsLeft, \* documents of the current file the loop has not reached yet
    policyDoc,    \* the document the loop of validate_file examined last (NoDoc
                  \* outside the loop and before its first iteration)
    issues,       \* validator.issues
    policyEvaluated, \* documents examined in this run
    policySkipped, \* validate_file calls that ended in yaml.YAMLError
    policyReport, \* <<>> until print_results ran, then what it printed
    policyOutcome, \* "running", "usage", "not_found", "finished", "traceback"
    policyStatus  \* process exit status, -1 while the process runs

\* one process of validate-gko-crds.py
gkoVars == <<pc, mode, filesLeft, fileNo, docsLeft, doc, errors, warnings,
             errBefore, warnBefore, evaluated, targets, decodeFailures, lastReturn, report,
             outcome, exitStatus>>
\* the input kept between two runs on it
rerunVars == <<given, run, first>>
\* one process of check-performance-thresholds.py
perfVars == <<perfPc, data, passed, perfPrinted, perfStatus>>
\* one process of check-sensitive-data.py
scanVars == <<scanPc, scanFilesLeft, scanFileNo, linesLeft, lineNo, linesRead, findings,
              reported, scanOutcome, scanStatus>>
\* one process of validate-policies.py
policyVars == <<policyPc, policyFilesLeft, policyFileNo, policyDocsLeft, policyDoc, issues,
                policyEvaluated, policySkipped, policyReport, policyOutcome, policyStatus>>
\* what a step of validate-gko-crds.py leaves alone
others == <<rerunVars, perfVars, scanVars, policyVars>>
vars == <<gkoVars, others>>

Unrecorded == [arg |-> "any"]
NoResult == [ended |-> FALSE]
NoData == [t |-> "nodata"]
\* check-performance-thresholds.py is not run
PerfIdle ==
    /\ perfPc = "idle"
    /\ data = NoData
    /\ passed = TRUE
    /\ perfPrinted = <<>>
    /\ perfStatus = -1

\* check-sensitive-data.py is not run
ScanIdle ==
    /\ scanPc = "idle"
    /\ scanFilesLeft = 0
    /\ scanFileNo = 0
    /\ linesLeft = 0
    /\ lineNo = 0
    /\ linesRead = 0
    /\ findings = <<>>
    /\ reported = <<>>
    /\ scanOutcome = "running"
    /\ scanStatus = -1

NoDoc == [t |-> "nodoc"]

\* validate-policies.py is not run
PolicyIdle ==
    /\ policyPc = "idle"
    /\ policyFilesLeft = 0
    /\ policyFileNo = 0
    /\ policyDocsLeft = 0
    /\ policyDoc = NoDoc
    /\ issues = <<>>
    /\ policyEvaluated = 0
    /\ policySkipped = 0
    /\ policyReport = <<>>
    /\ policyOutcome = "running"
    /\ policyStatus = -1

\* a single run, its input chosen step by step
SingleRun ==
    /\ given = Unrecorded
    /\ run = 1
    /\ first = NoResult

\* A resource of this validator: a map whose apiVersion is a string in the
\* gravitee.io/ namespace and whose kind is one of the three recognized kinds.
HasKey(v, k) == v.t = "map" /\ k \in DOMAIN v.m
InNamespace(d) ==
    /\ HasKey(d, "apiVersion")
    /\ d.m.apiVersion.t = "str"
    /\ StartsWith(Chars(d.m.apiVersion.s), GraviteePrefix)
KindIn(d, kinds) ==
    /\ HasKey(d, "kind")
    /\ d.m.kind.t = "str"
    /\ d.m.kind.s \in kinds
RecognizedKinds == {"ApiDefinition", "ApiPlan", "ManagementContext"}
IsGKOResource(d) == InNamespace(d) /\ KindIn(d, RecognizedKinds)
FilePath(i) == [t |-> "file", i |-> i]

\* a new process: GKOValidator.__init__, before main() looks at sys.argv
ProcessStart ==
    /\ pc = "main"
    /\ mode = "none"
    /\ filesLeft = 0
    /\ fileNo = 0
    /\ docsLeft = 0
    /\ doc = NoDoc
    /\ errors = <<>>
    /\ warnings = <<>>
    /\ errBefore = 0
    /\ warnBefore = 0
    /\ evaluated = 0
    /\ targets = 0
    /\ decodeFailures = 0
    /\ lastReturn = "none"
    /\ report = <<>>
    /\ outcome = "running"
    /\ exitStatus = -1

Init == ProcessStart /\ SingleRun /\ PerfIdle /\ ScanIdle /\ PolicyIdle

\* sys.exit(status), or the interpreter ending on an uncaught exception
Terminate(how, status) ==
    /\ pc' = "done"
    /\ outcome' = how
    /\ exitStatus' = status

\* a variant that lets warnings fail the run as well
FinalStatus_WarningsFail(errs) == IF errs # <<>> \/ warnings # <<>> THEN 1 ELSE 0

\* the exit status main() chooses after print_results
FinalStatus(errs) == IF errs # <<>> THEN 1 ELSE 0

\* a variant whose summary counts each distinct finding once
Printed_Unique(errs, warns) ==
    [errors |-> errs, warnings |-> warns,
     summary |-> <<Cardinality({errs[i] : i \in DOMAIN errs}),
                   Cardinality({warns[i] : i \in DOMAIN warns})>>]

\* what print_results writes: both lists and the summary counts
Printed(errs, warns) ==
    [errors |-> errs, warnings |-> warns, summary |-> <<Len(errs), Len(warns)>>]

(***************************************************************************)
(* main(): the argument and the path.                                       *)
(***************************************************************************)
\* len(sys.argv) < 2
UsageError ==
    /\ pc = "main"
    /\ Terminate("usage", 1)
    /\ UNCHANGED <<mode, filesLeft, fileNo, docsLeft, doc, errors, warnings,
                   errBefore, warnBefore, evaluated, targets, decodeFailures, lastReturn, report>>
    /\ UNCHANGED others

\* a variant that reports the path and goes on to the report instead of exiting
PathNotFound_NoExit ==
    /\ pc = "main"
    /\ pc' = "files"
    /\ outcome' = "not_found"
    /\ UNCHANGED <<mode, filesLeft, fileNo, docsLeft, doc, errors, warnings,
                   errBefore, warnBefore, evaluated, targets, decodeFailures, lastReturn, report,
                   exitStatus>>
    /\ UNCHANGED others

\* neither path.is_file() nor path.is_dir()
PathNotFound ==
    /\ pc = "main"
    /\ Terminate("not_found", 1)
    /\ UNCHANGED <<mode, filesLeft, fileNo, docsLeft, doc, errors, warnings,
                   errBefore, warnBefore, evaluated, targets, decodeFailures, lastReturn, report>>
    /\ UNCHANGED others

\* path.is_file(): one validate_file call, whatever the file's suffix
PathIsFile ==
    /\ pc = "main"
    /\ pc' = "files"
    /\ mode' = "file"
    /\ filesLeft' = 1
    /\ UNCHANGED <<fileNo, docsLeft, doc, errors, warnings, errBefore,
                   warnBefore, evaluated, targets, decodeFailures, lastReturn, report, outcome,
                   exitStatus>>
    /\ UNCHANGED others

\* path.is_dir(): the files rglob('*.yaml') and then rglob('*.yml') find; both
\* loops hand each file to validate_file, so the model keeps one count
PathIsDir ==
    /\ pc = "main"
    /\ \E n \in 0..MaxFiles : filesLeft' = n
    /\ pc' = "files"
    /\ mode' = "dir"
    /\ UNCHANGED <<fileNo, docsLeft, doc, errors, warnings, errBefore, warnBefore,
                   evaluated, targets, decodeFailures, lastReturn, report, outcome, exitStatus>>
    /\ UNCHANGED others

(***************************************************************************)
(* GKOValidator.validate_file, called from the loops of main().             *)
(***************************************************************************)
HasFile == filesLeft > 0

\* the next file of the loop
TakeFile ==
    /\ HasFile
    /\ filesLeft' = filesLeft - 1
    /\ fileNo' = fileNo + 1

\* a variant in which the YAMLError handler ends the run after recording it
FileDecodeError_Fatal ==
    /\ pc = "files"
    /\ TakeFile
    /\ errors' = Append(errors, Finding("YAMLParsingError", FilePath(fileNo + 1), <<>>))
    /\ errBefore' = Len(errors)
    /\ warnBefore' = Len(warnings)
    /\ doc' = NoDoc
    /\ decodeFailures' = decodeFailures + 1
    /\ lastReturn' = "False"
    /\ Terminate("traceback", 1)
    /\ UNCHANGED <<mode, docsLeft, warnings, evaluated, targets, report>>
    /\ UNCHANGED others

\* yaml.safe_load_all raises yaml.YAMLError: one error, return False
FileDecodeError ==
    /\ pc = "files"
    /\ TakeFile
    /\ errors' = Append(errors, Finding("YAMLParsingError", FilePath(fileNo + 1), <<>>))
    /\ errBefore' = Len(errors)
    /\ warnBefore' = Len(warnings)
    /\ doc' = NoDoc
    /\ decodeFailures' = decodeFailures + 1
    /\ lastReturn' = "False"
    /\ UNCHANGED <<pc, mode, docsLeft, warnings, evaluated, targets, report, outcome,
                   exitStatus>>
    /\ UNCHANGED others

\* open() or the read raises something that is not a yaml.YAMLError (OSError,
\* UnicodeDecodeError): no handler, the process ends with a traceback
FileReadError ==
    /\ pc = "files"
    /\ TakeFile
    /\ Terminate("traceback", 1)
    /\ doc' = NoDoc
    /\ UNCHANGED <<mode, docsLeft, errors, warnings, errBefore, warnBefore, evaluated,
                   targets, decodeFailures, lastReturn, report>>
    /\ UNCHANGED others

\* the file decodes to n documents
FileDecoded ==
    /\ pc = "files"
    /\ TakeFile
    /\ \E n \in 0..(MaxDocs - evaluated) : docsLeft' = n
    /\ pc' = "docs"
    /\ doc' = NoDoc
    /\ UNCHANGED <<mode, errors, warnings, errBefore, warnBefore, evaluated,
                   targets, decodeFailures, lastReturn, report, outcome, exitStatus>>
    /\ UNCHANGED others

\* one iteration of `for doc in documents`; an exception raised under
\* _validate_document is caught nowhere and ends the process
EvaluateNextDocument ==
    /\ pc = "docs"
    /\ docsLeft > 0
    /\ \E d \in Docs :
          LET r == EvaluateDocument(d)
          IN  /\ doc' = d
              /\ errors' = errors \o r.errs
              /\ warnings' = warnings \o r.warns
              /\ IF r.exc
                 THEN Terminate("traceback", 1)
                 ELSE UNCHANGED <<pc, outcome, exitStatus>>
    /\ errBefore' = Len(errors)
    /\ warnBefore' = Len(warnings)
    /\ docsLeft' = docsLeft - 1
    /\ evaluated' = evaluated + 1
    /\ targets' = IF IsGKOResource(doc') THEN targets + 1 ELSE targets
    /\ UNCHANGED <<mode, filesLeft, fileNo, decodeFailures, lastReturn, report>>
    /\ UNCHANGED others

\* a variant whose result tells only whether the last evaluation of the file
\* added no error
ReturnFromFile_LastDocumentOnly ==
    /\ pc = "docs"
    /\ docsLeft = 0
    /\ lastReturn' = IF Len(errors) = errBefore THEN "True" ELSE "False"
    /\ pc' = "files"
    /\ doc' = NoDoc
    /\ errBefore' = Len(errors)
    /\ warnBefore' = Len(warnings)
    /\ UNCHANGED <<mode, filesLeft, fileNo, docsLeft, errors, warnings, evaluated,
                   targets, decodeFailures, report, outcome, exitStatus>>
    /\ UNCHANGED others

\* the loop is over: return len(self.errors) == 0
ReturnFromFile ==
    /\ pc = "docs"
    /\ docsLeft = 0
    /\ lastReturn' = IF Len(errors) = 0 THEN "True" ELSE "False"
    /\ pc' = "files"
    /\ doc' = NoDoc
    /\ errBefore' = Len(errors)
    /\ warnBefore' = Len(warnings)
    /\ UNCHANGED <<mode, filesLeft, fileNo, docsLeft, errors, warnings, evaluated,
                   targets, decodeFailures, report, outcome, exitStatus>>
    /\ UNCHANGED others

(***************************************************************************)
(* main(): the report and the exit status.                                  *)
(***************************************************************************)
\* validator.print_results(), once every file has been validated
PrintResults ==
    /\ pc = "files"
    /\ ~HasFile
    /\ report' = <<Printed(errors, warnings)>>
    /\ pc' = "exit"
    /\ UNCHANGED <<mode, filesLeft, fileNo, docsLeft, doc, errors, warnings,
                   errBefore, warnBefore, evaluated, targets, decodeFailures, lastReturn,
                   outcome, exitStatus>>
    /\ UNCHANGED others

\* `if validator.errors: sys.exit(1)`, else the interpreter returns 0
Exit ==
    /\ pc = "exit"
    /\ Terminate("finished", FinalStatus(errors))
    /\ UNCHANGED <<mode, filesLeft, fileNo, docsLeft, doc, errors, warnings,
                   errBefore, warnBefore, evaluated, targets, decodeFailures, lastReturn, report>>
    /\ UNCHANGED others

Next ==
    \/ UsageError
    \/ PathNotFound
    \/ PathIsFile
    \/ PathIsDir
    \/ FileDecodeError
    \/ FileReadError
    \/ FileDecoded
    \/ EvaluateNextDocument
    \/ ReturnFromFile
    \/ PrintResults
    \/ Exit

Spec == Init /\ [][Next]_vars

(***************************************************************************)
(* Vocabulary of the properties: what the last evaluation appended, and     *)
(* what a document declares.                                                *)
(***************************************************************************)
NewErrors == SubSeq(errors, errBefore + 1, Len(errors))
NewWarnings == SubSeq(warnings, warnBefore + 1, Len(warnings))
CountCode(found, code) ==
    Cardinality({i \in DOMAIN found : found[i].code = code})
CountFinding(found, f) == Cardinality({i \in DOMAIN found : found[i] = f})

\* a run that got past the argument and path checks and has ended
RunEnded == pc = "done" /\ mode \in {"file", "dir"}

\* the loop has just evaluated doc (or the process died evaluating it)
Evaluated == doc # NoDoc

\* the value a resource declares under spec.<key>, Absent when spec is not a
\* map or has no such key
SpecField(d, key) ==
    IF HasKey(d, "spec") /\ HasKey(d.m.spec, key) THEN d.m.spec.m[key] ELSE Absent

(***************************************************************************)
(* Properties.                                                              *)
(***************************************************************************)
\* C1: a run on an existing file or directory ends with exit status 0 exactly
\* when every file has been processed and the error list is then empty, and
\* with status 1 otherwise; the warnings play no part in the status.
C1_ExitStatusIffNoErrors ==
    RunEnded =>
        /\ exitStatus \in {0, 1}
        /\ exitStatus = 0 <=>
              (outcome = "finished" /\ filesLeft = 0 /\ docsLeft = 0 /\ errors = <<>>)

\* a finished directory run with warnings and no error, exit status 0
C1_Witness ==
    /\ RunEnded
    /\ mode = "dir"
    /\ outcome = "finished"
    /\ errors = <<>>
    /\ Len(warnings) >= 2
    /\ exitStatus = 0

\* C2: evaluating a map document that is outside the gravitee.io/ namespace
\* or of no recognized kind leaves the error and warning lists as they were,
\* whatever else the document holds.
C2_NonTargetAddsNothing ==
    [][(pc = "docs" /\ evaluated' = evaluated + 1
            /\ doc'.t = "map" /\ ~IsGKOResource(doc'))
          => (errors' = errors /\ warnings' = warnings)]_vars

\* an ApiDefinition of another namespace, without spec, evaluated after a
\* document that left errors: the lists are as they were
C2_Witness ==
    /\ pc = "docs"
    /\ doc = Resource(Str("v1"), Str("ApiDefinition"), NamedMetadata, Absent)
    /\ errBefore > 0
    /\ Len(errors) = errBefore
    /\ Len(warnings) = warnBefore

\* C5: a YAML decode failure of a file appends exactly one error, a
\* file-level finding naming that file and unlike any document-level finding,
\* appends no warning, and leaves the run going with the remaining files; a
\* run in which a file failed to decode ends with exit status 1.
C5_DecodeFailureIsOneFileError ==
    /\ [][decodeFailures' # decodeFailures =>
            /\ errors' = Append(errors, Finding("YAMLParsingError", FilePath(fileNo'), <<>>))
            /\ warnings' = warnings
            /\ pc' = "files"
            /\ filesLeft' = filesLeft - 1]_vars
    /\ [](/\ CountCode(errors, "YAMLParsingError") = decodeFailures
          /\ \A i \in DOMAIN errors :
                (errors[i].code = "YAMLParsingError") <=> (errors[i].subject.t = "file")
          /\ \A i, j \in DOMAIN errors :
                (i # j /\ errors[i].subject.t = "file") => errors[i] # errors[j])
    /\ []((pc = "done" /\ decodeFailures > 0) => exitStatus = 1)

\* the first file failed to decode and a document of the second file has
\* been evaluated and has added its own errors
C5_Witness ==
    /\ decodeFailures = 1
    /\ fileNo = 2
    /\ pc = "docs"
    /\ IsGKOResource(doc)
    /\ Len(errors) > errBefore
    /\ errors[1].code = "YAMLParsingError"

\* C8: an ApiPlan whose security is KEY_LESS never receives the "no rate
\* limiting or quota policy" warning, whatever its flows and policies are.
C8_KeyLessNeverWarned ==
    (Evaluated /\ KindIn(doc, {"ApiPlan"}) /\ SpecField(doc, "security") = Str("KEY_LESS"))
        => CountCode(NewWarnings, "PlanNoRateLimit") = 0

\* a KEY_LESS plan with an empty flow list has been evaluated
C8_Witness ==
    /\ pc = "docs"
    /\ doc = Plan(Vary(Vary(BasePlanSpec, "security", Str("KEY_LESS")), "flows", EmptyList))
    /\ Len(errors) = errBefore

\* the value a document declares at a dotted path, Absent when a segment is
\* missing or passes through something that is not a map
RECURSIVE Declared(_, _)
Declared(v, keys) ==
    IF keys = <<>> THEN v
    ELSE IF HasKey(v, Head(keys)) THEN Declared(v.m[Head(keys)], Tail(keys))
    ELSE Absent

\* absent, null, or an empty string, list or map
IsEmptyValue(v) == v \in {Absent, Null, Str(""), EmptyList, EmptyMap}

\* the resource name findings carry
DocName(d) ==
    IF HasKey(d, "metadata") /\ HasKey(d.m.metadata, "name")
    THEN d.m.metadata.m.name
    ELSE Str("unknown")

RequiredPaths(d) ==
    IF KindIn(d, {"ApiDefinition"}) THEN REQUIRED_API_DEFINITION_FIELDS
    ELSE REQUIRED_API_PLAN_FIELDS

\* C3: evaluating a recognized ApiDefinition or ApiPlan yields, for each
\* required path of its kind, exactly one error naming the path when the
\* path is absent or empty and none when it holds a non-empty value; the run
\* of a resource with a missing path ends with exit status 1.
C3_OneErrorPerMissingPath ==
    (Evaluated /\ InNamespace(doc) /\ KindIn(doc, {"ApiDefinition", "ApiPlan"})) =>
        /\ \A i \in DOMAIN RequiredPaths(doc) :
              LET p == RequiredPaths(doc)[i]
              IN  CountFinding(NewErrors,
                               Finding("MissingRequiredField", DocName(doc), <<Path(p)>>))
                     = IF IsEmptyValue(Declared(doc, p)) THEN 1 ELSE 0
        /\ (pc = "done"
              /\ \E i \in DOMAIN RequiredPaths(doc) :
                    IsEmptyValue(Declared(doc, RequiredPaths(doc)[i])))
              => exitStatus = 1

\* C4: once the argument and the path are accepted, nothing a document holds
\* ends the run early: every run ends after all files and documents have been
\* evaluated and the results printed.  (A file that cannot be read at all is
\* left aside.)
C4_FindingsNeverFatal ==
    (RunEnded /\ ~(outcome = "traceback" /\ doc = NoDoc)) =>
        /\ outcome = "finished"
        /\ filesLeft = 0
        /\ docsLeft = 0
        /\ report # <<>>

EnumChecks ==
    {[kind |-> "ApiPlan", key |-> "security", code |-> "InvalidSecurityType",
      valid |-> VALID_SECURITY_TYPES],
     [kind |-> "ApiPlan", key |-> "status", code |-> "InvalidPlanStatus",
      valid |-> VALID_PLAN_STATUSES],
     [kind |-> "ApiDefinition", key |-> "lifecycleState", code |-> "InvalidLifecycleState",
      valid |-> VALID_LIFECYCLE_STATES]}

\* C6: for each enum-restricted field of a resource, an error citing the
\* value is produced exactly when the value is present, non-empty and not a
\* member of the field's set.
C6_EnumErrorIffInvalid ==
    (Evaluated /\ InNamespace(doc)) =>
        \A c \in EnumChecks :
            KindIn(doc, {c.kind}) =>
                LET v == SpecField(doc, c.key)
                IN  CountFinding(NewErrors, Finding(c.code, DocName(doc), <<v>>))
                       = IF ~IsEmptyValue(v) /\ ~(v.t = "str" /\ v.s \in c.valid)
                         THEN 1 ELSE 0

\* a string of three runs of digits separated by two dots
ThreeDottedIntegers(v) ==
    /\ v.t = "str"
    /\ LET c == Chars(v.s)
       IN  \E i, j \in 1..Len(c) :
              /\ 1 < i /\ i + 1 < j /\ j < Len(c)
              /\ \A k \in 1..Len(c) :
                    IF k \in {i, j} THEN c[k] = "." ELSE c[k] \in Digits

\* C7: an ApiDefinition whose spec.version is present and is not three dotted
\* integers receives exactly one version warning; one whose version matches,
\* or is absent, receives none.
C7_VersionWarning ==
    (Evaluated /\ InNamespace(doc) /\ KindIn(doc, {"ApiDefinition"})) =>
        LET v == SpecField(doc, "version")
        IN  CountCode(NewWarnings, "VersionNotSemver")
               = IF ~IsEmptyValue(v) /\ ~ThreeDottedIntegers(v) THEN 1 ELSE 0

\* the policies a flow declares, in its pre and post lists
DeclaredPolicies(flow) ==
    (IF HasKey(flow, "pre") /\ flow.m.pre.t = "list" THEN flow.m.pre.l ELSE <<>>)
    \o (IF HasKey(flow, "post") /\ flow.m.post.t = "list" THEN flow.m.post.l ELSE <<>>)

\* some flow of the plan declares a rate-limit or quota policy
DeclaresRateLimit(d) ==
    LET flows == SpecField(d, "flows")
    IN  /\ flows.t = "list"
        /\ \E i \in DOMAIN flows.l : \E j \in DOMAIN DeclaredPolicies(flows.l[i]) :
              LET policy == DeclaredPolicies(flows.l[i])[j]
              IN  /\ HasKey(policy, "policy")
                  /\ policy.m.policy.t = "str"
                  /\ policy.m.policy.s \in {"rate-limit", "quota"}

\* C9: an ApiPlan that is not KEY_LESS receives the "no rate limiting or
\* quota policy" warning exactly once when none of its flows declares a
\* rate-limit or quota policy, and not at all when one does, in whichever
\* list of a flow the policy stands.  (Stated for evaluations that end
\* without an exception.)
C9_RateLimitWarningIffNoPolicy ==
    (Evaluated /\ outcome # "traceback" /\ InNamespace(doc) /\ KindIn(doc, {"ApiPlan"})
        /\ SpecField(doc, "security") # Str("KEY_LESS")) =>
        CountCode(NewWarnings, "PlanNoRateLimit") = IF DeclaresRateLimit(doc) THEN 0 ELSE 1

\* C10: a directory run in which no file failed to decode and no evaluated
\* document was a resource of this validator ends with both lists empty and
\* exit status 0.  (A file that cannot be read at all is left aside.)
C10_NoTargetsNoFindings ==
    (RunEnded /\ mode = "dir" /\ targets = 0 /\ decodeFailures = 0
        /\ ~(outcome = "traceback" /\ doc = NoDoc)) =>
        /\ errors = <<>>
        /\ warnings = <<>>
        /\ exitStatus = 0

(***************************************************************************)
(* Two runs of the validator on one unchanged input: the second process     *)
(* starts from a new GKOValidator and reads the same argument, the same     *)
(* files in the same order and the same documents.                          *)
(***************************************************************************)
\* documents of the repeated runs: a clean resource, ones with an error, a
\* warning, both, one on which the evaluation raises, and a skipped one
RerunDocs ==
    {Definition(BaseDefinitionSpec),
     Definition(Vary(BaseDefinitionSpec, "version", Absent)),
     Definition(Vary(BaseDefinitionSpec, "version", Str("1.2"))),
     Plan(Vary(Vary(BasePlanSpec, "security", Str("BASIC")), "flows", EmptyList)),
     Resource(GKOApiVersion, Str("ApiDefinition"), Null, Absent),
     Null}

\* the sequences over S of length at most n
RECURSIVE SeqsUpTo(_, _)
SeqsUpTo(S, n) ==
    IF n = 0 THEN {<<>>}
    ELSE LET shorter == SeqsUpTo(S, n - 1)
         IN  shorter \cup {Append(q, x) : q \in shorter, x \in S}

\* what a file holds: something yaml cannot decode, something that cannot be
\* read, or a sequence of documents
FileContents ==
    {[k |-> "undecodable", docs |-> <<>>], [k |-> "unreadable", docs |-> <<>>]}
    \cup {[k |-> "docs", docs |-> q] : q \in SeqsUpTo(RerunDocs, MaxDocs)}

RECURSIVE DocsIn(_)
DocsIn(files) == IF files = <<>> THEN 0 ELSE Len(Head(files).docs) + DocsIn(Tail(files))

\* the inputs of a repeated run
Inputs ==
    {[arg |-> a, files |-> <<>>] : a \in {"missing", "not_found"}}
    \cup {[arg |-> "file", files |-> <<c>>] : c \in FileContents}
    \cup {[arg |-> "dir", files |-> q] :
            q \in {f \in SeqsUpTo(FileContents, MaxFiles) : DocsIn(f) <= MaxDocs}}

\* the file validate_file is about to open, the document its loop is about to evaluate
NextFile == given.files[fileNo + 1]
NextDoc == given.files[fileNo].docs[Len(given.files[fileNo].docs) - docsLeft + 1]

\* the step taken is the one the recorded input dictates
FollowsInput ==
    /\ pc = "main" =>
          CASE given.arg = "missing" -> outcome' = "usage"
            [] given.arg = "not_found" -> outcome' = "not_found"
            [] given.arg = "file" -> mode' = "file"
            [] given.arg = "dir" -> mode' = "dir" /\ filesLeft' = Len(given.files)
    /\ (pc = "files" /\ HasFile) =>
          CASE NextFile.k = "undecodable" -> decodeFailures' = decodeFailures + 1
            [] NextFile.k = "unreadable" -> outcome' = "traceback"
            [] NextFile.k = "docs" -> pc' = "docs" /\ docsLeft' = Len(NextFile.docs)
    /\ (pc = "docs" /\ docsLeft > 0) => doc' = NextDoc

\* what a run ended with: both lists, what was printed, the exit status
RunResult ==
    [ended |-> TRUE, errors |-> errors, warnings |-> warnings, report |-> report,
     outcome |-> outcome, exitStatus |-> exitStatus]

\* a variant in which the second process finds the first one's list
Leftover_Kept(list) == list

\* what a new process finds of a list of the previous one: GKOValidator() is
\* constructed anew and __init__ binds new empty lists
Leftover(list) == <<>>

RerunInit ==
    /\ ProcessStart
    /\ PerfIdle
    /\ ScanIdle
    /\ PolicyIdle
    /\ given \in Inputs
    /\ run = 1
    /\ first = NoResult

\* a step of the validator on the recorded input
RerunStep == Next /\ FollowsInput

\* the first process has ended; the validator is started again on the same input
RunAgain ==
    /\ pc = "done"
    /\ run = 1
    /\ run' = 2
    /\ first' = RunResult
    /\ pc' = "main"
    /\ mode' = "none"
    /\ filesLeft' = 0
    /\ fileNo' = 0
    /\ docsLeft' = 0
    /\ doc' = NoDoc
    /\ errors' = Leftover(errors)
    /\ warnings' = Leftover(warnings)
    /\ errBefore' = 0
    /\ warnBefore' = 0
    /\ evaluated' = 0
    /\ targets' = 0
    /\ decodeFailures' = 0
    /\ lastReturn' = "none"
    /\ report' = <<>>
    /\ outcome' = "running"
    /\ exitStatus' = -1
    /\ UNCHANGED <<given, perfVars, scanVars, policyVars>>

RerunNext ==
    \/ RerunStep
    \/ RunAgain

RerunSpec == RerunInit /\ [][RerunNext]_vars

C12_BadInvocationExitsAtOnce ==
    (outcome \in {"usage", "not_found"}) =>
        /\ pc = "done"
        /\ exitStatus = 1
        /\ mode = "none"
        /\ fileNo = 0
        /\ evaluated = 0
        /\ errors = <<>>
        /\ warnings = <<>>
        /\ report = <<>>

C12_Witness == outcome = "not_found" /\ pc = "done" /\ exitStatus = 1 /\ report = <<>>

\* the items of a declared list, its entries (the items that are maps), the
\* value under a key of a declared map
ListItems(v) == IF v.t = "list" THEN v.l ELSE <<>>
IsEntry(v) == v.t = "map"
Field(v, k) == IF HasKey(v, k) THEN v.m[k] ELSE Absent

RECURSIVE Flatten(_)
Flatten(seqs) == IF seqs = <<>> THEN <<>> ELSE Head(seqs) \o Flatten(Tail(seqs))

CountIf(items, P(_)) == Cardinality({i \in DOMAIN items : P(items[i])})

\* the endpoints a definition declares, over all its endpoint groups
DeclaredEndpoints(d) ==
    LET groups == ListItems(Field(SpecField(d, "proxy"), "groups"))
    IN  SelectSeq(Flatten([i \in DOMAIN groups |-> ListItems(Field(groups[i], "endpoints"))]),
                  IsEntry)

TargetMissing(endpoint) == IsEmptyValue(Field(endpoint, "target"))
TargetAbsolute(endpoint) ==
    LET target == Field(endpoint, "target")
    IN  /\ target.t = "str"
        /\ \/ StartsWith(Chars(target.s), HttpPrefix)
           \/ StartsWith(Chars(target.s), HttpsPrefix)
TargetRelative(endpoint) == ~TargetMissing(endpoint) /\ ~TargetAbsolute(endpoint)

\* C13: evaluating an ApiDefinition yields one "missing target" error for
\* each declared endpoint whose target is missing or empty, one "should be
\* absolute" warning for each whose non-empty target starts with neither
\* http:// nor https://, and nothing for an endpoint with an absolute target.
C13_EndpointTargetFindings ==
    (Evaluated /\ InNamespace(doc) /\ KindIn(doc, {"ApiDefinition"})) =>
        /\ CountCode(NewErrors, "EndpointMissingTarget")
              = CountIf(DeclaredEndpoints(doc), TargetMissing)
        /\ CountCode(NewWarnings, "EndpointTargetNotAbsolute")
              = CountIf(DeclaredEndpoints(doc), TargetRelative)
        /\ CountCode(NewWarnings, "EndpointMissingTarget") = 0
        /\ CountCode(NewErrors, "EndpointTargetNotAbsolute") = 0

\* the policy entries a resource declares, in the pre and post lists of its flows
DeclaredPolicyEntries(d) ==
    LET flows == ListItems(SpecField(d, "flows"))
    IN  SelectSeq(Flatten([i \in DOMAIN flows |-> DeclaredPolicies(flows[i])]), IsEntry)

LacksPolicyType(policy) == IsEmptyValue(Field(policy, "policy"))
LacksConfiguration(policy) == IsEmptyValue(Field(policy, "configuration"))

\* C14: evaluating an ApiDefinition or an ApiPlan yields one "missing policy
\* type" error for each declared policy entry without a non-empty type and
\* one "no configuration" warning for each without a configuration, in the
\* pre and the post list of every flow alike.  (Stated for evaluations that
\* end without an exception.)
C14_EveryPolicyEntryChecked ==
    (Evaluated /\ outcome # "traceback" /\ InNamespace(doc)
        /\ KindIn(doc, {"ApiDefinition", "ApiPlan"})) =>
        /\ CountCode(NewErrors, "PolicyMissingType")
              = CountIf(DeclaredPolicyEntries(doc), LacksPolicyType)
        /\ CountCode(NewWarnings, "PolicyNoConfiguration")
              = CountIf(DeclaredPolicyEntries(doc), LacksConfiguration)

\* the virtual hosts a definition declares
DeclaredVirtualHosts(d) ==
    SelectSeq(ListItems(Field(SpecField(d, "proxy"), "virtualHosts")), IsEntry)

PathLacksSlash(vh) ==
    LET path == Field(vh, "path")
    IN  ~(path.t = "str" /\ StartsWith(Chars(path.s), Slash))

\* C15: evaluating an ApiDefinition yields an error for a declared virtual
\* host exactly when its path does not begin with '/', a virtual host
\* without a path included.
C15_VirtualHostPathErrors ==
    (Evaluated /\ InNamespace(doc) /\ KindIn(doc, {"ApiDefinition"})) =>
        CountCode(NewErrors, "VirtualHostPath")
            = CountIf(DeclaredVirtualHosts(doc), PathLacksSlash)

\* a document that decodes to null, to an empty value, or to something that
\* is not a map
IsBlankOrNotMap(d) == d.t # "map" \/ d = EmptyMap

\* C16: the step that evaluates a null, empty or non-map document leaves the
\* error and warning lists as they were and stays in the loop of the same
\* file, with the documents after it still to come.
C16_BlankDocumentSkipped ==
    [][(pc = "docs" /\ evaluated' = evaluated + 1 /\ IsBlankOrNotMap(doc'))
          => /\ errors' = errors
             /\ warnings' = warnings
             /\ pc' = "docs"
             /\ outcome' = "running"
             /\ fileNo' = fileNo
             /\ filesLeft' = filesLeft
             /\ docsLeft' = docsLeft - 1]_vars

C16_Witness ==
    /\ pc = "docs"
    /\ doc = List(<<Str("x")>>)
    /\ docsLeft = 1
    /\ outcome = "running"
    /\ errors = <<>>
    /\ warnings = <<>>

(***************************************************************************)
(* check-performance-thresholds.py: a k6 summary against fixed thresholds.  *)
(***************************************************************************)
THRESHOLDS ==
    [p50_latency_ms |-> 200, p95_latency_ms |-> 500, p99_latency_ms |-> 1000,
     error_rate_percent |-> 1, min_rps |-> 100]

\* the summary gives the error rate as a fraction; the model writes it as a
\* whole number of ten-thousandths
RateScale == 10000

\* `errors.get('rate', 0) * 100`, in ten-thousandths of a percent
ErrorRatePercent(rate) == rate * 100

\* a k6 summary with the given percentiles (milliseconds) and error rate
DurationValues(p50, p95, p99) ==
    Map(Vary(Vary(Vary(<<>>, "p(50)", p50), "p(95)", p95), "p(99)", p99))
Summary(p50, p95, p99, rate) ==
    Map([metrics |->
            Map([http_req_duration |-> Map([values |-> DurationValues(p50, p95, p99)]),
                 errors |-> Map([values |-> Map(Vary(<<>>, "rate", rate))])])])

\* a value at, and just above, a limit, or no value at all
Around(limit) == {Absent, Num(limit), Num(limit + 1)}

Summaries ==
    {Summary(p50, p95, p99, rate) :
        p50 \in Around(THRESHOLDS.p50_latency_ms),
        p95 \in Around(THRESHOLDS.p95_latency_ms),
        p99 \in Around(THRESHOLDS.p99_latency_ms),
        rate \in Around(THRESHOLDS.error_rate_percent * (RateScale \div 100))}
    \cup {EmptyMap, Map([metrics |-> EmptyMap]), Map([metrics |-> Null]),
          Summary(Null, Absent, Absent, Absent), List(<<>>)}

\* the process of check-performance-thresholds.py starts
PerfStart ==
    /\ perfPc = "main"
    /\ data = NoData
    /\ passed = TRUE
    /\ perfPrinted = <<>>
    /\ perfStatus = -1

PerfInit == ProcessStart /\ SingleRun /\ ScanIdle /\ PolicyIdle /\ PerfStart

PerfLine(what, ok) == [line |-> what, ok |-> ok]

\* sys.exit(status), or the interpreter ending on an uncaught exception
PerfTerminate(status) ==
    /\ perfPc' = "done"
    /\ perfStatus' = status

\* marks an AttributeError or TypeError raised while a value was fetched
Raised == [t |-> "raised"]

\* d.get(key, {}): an AttributeError unless d is a dict
GetDict(d, key) == IF ~IsDict(d) THEN Raised ELSE DictGet(d, key, EmptyMap)

\* metrics.get(group, {}).get('values', {})
MetricValues(group) ==
    LET metrics == GetDict(data, "metrics")
        g == IF metrics = Raised THEN Raised ELSE GetDict(metrics, group)
    IN  IF g = Raised THEN Raised ELSE GetDict(g, "values")

\* values.get(key, 0)
MetricValue(values, key) == IF ~IsDict(values) THEN Raised ELSE DictGet(values, key, Num(0))

\* len(sys.argv) < 2
PerfUsage ==
    /\ perfPc = "main"
    /\ perfPrinted' = Append(perfPrinted, PerfLine("usage", FALSE))
    /\ PerfTerminate(1)
    /\ UNCHANGED <<data, passed>>
    /\ UNCHANGED <<gkoVars, rerunVars, scanVars, policyVars>>

\* open() or json.load raises: nothing catches it
PerfLoadError ==
    /\ perfPc = "main"
    /\ PerfTerminate(1)
    /\ UNCHANGED <<data, passed, perfPrinted>>
    /\ UNCHANGED <<gkoVars, rerunVars, scanVars, policyVars>>

\* data = json.load(f); passed = True
PerfLoad ==
    /\ perfPc = "main"
    /\ \E d \in Summaries : data' = d
    /\ passed' = TRUE
    /\ perfPc' = "p50"
    /\ UNCHANGED <<perfPrinted, perfStatus>>
    /\ UNCHANGED <<gkoVars, rerunVars, scanVars, policyVars>>

\* one latency check: fetch the percentile, compare, print, lower `passed`
CheckLatency(at, key, limit, then) ==
    /\ perfPc = at
    /\ LET values == MetricValues("http_req_duration")
           v == IF values = Raised THEN Raised ELSE MetricValue(values, key)
       IN  IF v.t # "num"
           THEN /\ PerfTerminate(1)
                /\ UNCHANGED <<passed, perfPrinted>>
           ELSE /\ perfPc' = then
                /\ passed' = IF v.n > limit THEN FALSE ELSE passed
                /\ perfPrinted' = Append(perfPrinted, PerfLine(key, ~(v.n > limit)))
                /\ UNCHANGED perfStatus
    /\ UNCHANGED data
    /\ UNCHANGED <<gkoVars, rerunVars, scanVars, policyVars>>

CheckP50 == CheckLatency("p50", "p(50)", THRESHOLDS.p50_latency_ms, "p95")
CheckP95 == CheckLatency("p95", "p(95)", THRESHOLDS.p95_latency_ms, "rate")

\* the error rate check
CheckErrorRate ==
    /\ perfPc = "rate"
    /\ LET values == MetricValues("errors")
           v == IF values = Raised THEN Raised ELSE MetricValue(values, "rate")
       IN  IF v.t # "num"
           THEN /\ PerfTerminate(1)
                /\ UNCHANGED <<passed, perfPrinted>>
           ELSE LET exceeds ==
                       ErrorRatePercent(v.n) > THRESHOLDS.error_rate_percent * RateScale
                IN  /\ perfPc' = "return"
                    /\ passed' = IF exceeds THEN FALSE ELSE passed
                    /\ perfPrinted' = Append(perfPrinted, PerfLine("rate", ~exceeds))
                    /\ UNCHANGED perfStatus
    /\ UNCHANGED data
    /\ UNCHANGED <<gkoVars, rerunVars, scanVars, policyVars>>

\* return passed; the caller exits 1 when it is false, 0 otherwise
PerfReturn ==
    /\ perfPc = "return"
    /\ perfPrinted' = Append(perfPrinted, PerfLine("result", passed))
    /\ PerfTerminate(IF passed THEN 0 ELSE 1)
    /\ UNCHANGED <<data, passed>>
    /\ UNCHANGED <<gkoVars, rerunVars, scanVars, policyVars>>

PerfNext ==
    \/ PerfUsage
    \/ PerfLoadError
    \/ PerfLoad
    \/ CheckP50
    \/ CheckP95
    \/ CheckErrorRate
    \/ PerfReturn

PerfSpec == PerfInit /\ [][PerfNext]_vars

\* check_thresholds returned and the process ended with its verdict
PerfFinished ==
    /\ perfPc = "done"
    /\ perfPrinted # <<>>
    /\ perfPrinted[Len(perfPrinted)].line = "result"

\* a metric of the summary is within its limit (a metric the summary does
\* not give counts as within)
Within(path, limit) ==
    LET v == Declared(data, path)
    IN  v = Absent \/ (v.t = "num" /\ v.n <= limit)

\* C17: the threshold check ends with exit status 0 exactly when p(50) is at
\* most 200 ms, p(95) at most 500 ms, p(99) at most 1000 ms and the error
\* rate at most 1%, and with exit status 1 when any of them is exceeded.
C17_PassIffAllWithinThresholds ==
    PerfFinished =>
        /\ perfStatus \in {0, 1}
        /\ perfStatus = 0 <=>
              /\ Within(<<"metrics", "http_req_duration", "values", "p(50)">>, 200)
              /\ Within(<<"metrics", "http_req_duration", "values", "p(95)">>, 500)
              /\ Within(<<"metrics", "http_req_duration", "values", "p(99)">>, 1000)
              /\ Within(<<"metrics", "errors", "values", "rate">>, RateScale \div 100)

(***************************************************************************)
(* check-sensitive-data.py: lines matching a sensitive pattern are recorded *)
(* as findings; the exit status depends on the descriptions reported.       *)
(***************************************************************************)
\* the descriptions of SENSITIVE_PATTERNS, in the order of the list
SENSITIVE_PATTERNS ==
    <<"Possible hardcoded password",
      "Possible hardcoded secret",
      "Possible hardcoded API key",
      "Possible hardcoded bearer token",
      "Private key detected",
      "MongoDB connection string with credentials",
      "PostgreSQL connection string with credentials",
      "MySQL connection string with credentials",
      "AWS Access Key ID detected",
      "GitHub Personal Access Token detected",
      "GitHub PAT detected">>

\* print_results: the descriptions that make the run fail
critical_patterns == <<"Private key", "AWS", "GitHub">>

\* the characters of a description or of a critical pattern
TextChars(s) ==
    CASE s = "Possible hardcoded password" ->
            <<"P","o","s","s","i","b","l","e"," ","h","a","r","d","c","o","d",
            "e","d"," ","p","a","s","s","w","o","r","d">>
      [] s = "Possible hardcoded secret" ->
            <<"P","o","s","s","i","b","l","e"," ","h","a","r","d","c","o","d",
            "e","d"," ","s","e","c","r","e","t">>
      [] s = "Possible hardcoded API key" ->
            <<"P","o","s","s","i","b","l","e"," ","h","a","r","d","c","o","d",
            "e","d"," ","A","P","I"," ","k","e","y">>
      [] s = "Possible hardcoded bearer token" ->
            <<"P","o","s","s","i","b","l","e"," ","h","a","r","d","c","o","d",
            "e","d"," ","b","e","a","r","e","r"," ","t","o","k","e","n">>
      [] s = "Private key detected" ->
            <<"P","r","i","v","a","t","e"," ","k","e","y"," ","d","e","t","e",
            "c","t","e","d">>
      [] s = "MongoDB connection string with credentials" ->
            <<"M","o","n","g","o","D","B"," ","c","o","n","n","e","c","t","i",
            "o","n"," ","s","t","r","i","n","g"," ","w","i","t","h"," ","c",
            "r","e","d","e","n","t","i","a","l","s">>
      [] s = "PostgreSQL connection string with credentials" ->
            <<"P","o","s","t","g","r","e","S","Q","L"," ","c","o","n","n","e",
            "c","t","i","o","n"," ","s","t","r","i","n","g"," ","w","i","t",
            "h"," ","c","r","e","d","e","n","t","i","a","l","s">>
      [] s = "MySQL connection string with credentials" ->
            <<"M","y","S","Q","L"," ","c","o","n","n","e","c","t","i","o","n",
            " ","s","t","r","i","n","g"," ","w","i","t","h"," ","c","r","e",
            "d","e","n","t","i","a","l","s">>
      [] s = "AWS Access Key ID detected" ->
            <<"A","W","S"," ","A","c","c","e","s","s"," ","K","e","y"," ","I",
            "D"," ","d","e","t","e","c","t","e","d">>
      [] s = "GitHub Personal Access Token detected" ->
            <<"G","i","t","H","u","b"," ","P","e","r","s","o","n","a","l"," ",
            "A","c","c","e","s","s"," ","T","o","k","e","n"," ","d","e","t",
            "e","c","t","e","d">>
      [] s = "GitHub PAT detected" ->
            <<"G","i","t","H","u","b"," ","P","A","T"," ","d","e","t","e","c",
            "t","e","d">>
      [] s = "Private key" ->
            <<"P","r","i","v","a","t","e"," ","k","e","y">>
      [] s = "AWS" ->
            <<"A","W","S">>
      [] s = "GitHub" ->
            <<"G","i","t","H","u","b">>

\* Python's `needle in text` for two strings
Contains(text, needle) ==
    \E i \in 0..(Len(text) - Len(needle)) : SubSeq(text, i + 1, i + Len(needle)) = needle

\* any(p in f['description'] for p in critical_patterns)
IsCritical(description) ==
    \E i \in DOMAIN critical_patterns :
        Contains(TextChars(description), TextChars(critical_patterns[i]))

\* lines of one file examined at most
MaxLines == 2

\* A line, as far as the scan can tell lines apart: the patterns of
\* SENSITIVE_PATTERNS that re.search finds in it, and whether a pattern of
\* SAFE_VALUE_PATTERNS matches it as well.
Lines ==
    {[matches |-> S, safe |-> b] :
        S \in {{}} \cup {{i} : i \in DOMAIN SENSITIVE_PATTERNS} \cup {{1, 5}},
        b \in BOOLEAN}

\* the findings check_file appends for one line: one per matching pattern, in
\* the order of SENSITIVE_PATTERNS, unless the line is safe
RECURSIVE LineFindings(_, _, _, _)
LineFindings(line, file, num, i) ==
    IF i > Len(SENSITIVE_PATTERNS) THEN <<>>
    ELSE (IF i \in line.matches /\ ~line.safe
          THEN <<[file |-> file, line |-> num, description |-> SENSITIVE_PATTERNS[i]]>>
          ELSE <<>>)
         \o LineFindings(line, file, num, i + 1)

\* print_results: the findings without those whose (file, line, description)
\* was seen before
RECURSIVE Unique(_, _)
Unique(found, seen) ==
    IF found = <<>> THEN <<>>
    ELSE IF Head(found) \in seen THEN Unique(Tail(found), seen)
    ELSE <<Head(found)>> \o Unique(Tail(found), seen \cup {Head(found)})

\* a variant that fails the run on any finding
ExitCode_AnyFinding(unique) == IF unique # <<>> THEN 1 ELSE 0

\* print_results: 1 when a unique finding is critical, 0 otherwise
ExitCode(unique) ==
    IF \E i \in DOMAIN unique : IsCritical(unique[i].description) THEN 1 ELSE 0

\* the process of check-sensitive-data.py starts
ScanStart ==
    /\ scanPc = "main"
    /\ scanFilesLeft = 0
    /\ scanFileNo = 0
    /\ linesLeft = 0
    /\ lineNo = 0
    /\ linesRead = 0
    /\ findings = <<>>
    /\ reported = <<>>
    /\ scanOutcome = "running"
    /\ scanStatus = -1

ScanInit == ProcessStart /\ SingleRun /\ PerfIdle /\ PolicyIdle /\ ScanStart

ScanTerminate(how, status) ==
    /\ scanPc' = "done"
    /\ scanOutcome' = how
    /\ scanStatus' = status

\* len(sys.argv) < 2
ScanUsage ==
    /\ scanPc = "main"
    /\ ScanTerminate("usage", 1)
    /\ UNCHANGED <<scanFilesLeft, scanFileNo, linesLeft, lineNo, linesRead, findings, reported>>
    /\ UNCHANGED <<gkoVars, rerunVars, perfVars, policyVars>>

\* not directory.exists()
ScanNotFound ==
    /\ scanPc = "main"
    /\ ScanTerminate("not_found", 1)
    /\ UNCHANGED <<scanFilesLeft, scanFileNo, linesLeft, lineNo, linesRead, findings, reported>>
    /\ UNCHANGED <<gkoVars, rerunVars, perfVars, policyVars>>

\* check_directory: the files rglob('*.yaml') and then rglob('*.yml') find
CheckDirectory ==
    /\ scanPc = "main"
    /\ \E n \in 0..MaxFiles : scanFilesLeft' = n
    /\ scanPc' = "files"
    /\ UNCHANGED <<scanFileNo, linesLeft, lineNo, linesRead, findings, reported, scanOutcome,
                   scanStatus>>
    /\ UNCHANGED <<gkoVars, rerunVars, perfVars, policyVars>>

\* check_file: the file cannot be read; the exception is printed and the
\* scan goes on with the next file
CheckFileUnreadable ==
    /\ scanPc = "files"
    /\ scanFilesLeft > 0
    /\ scanFilesLeft' = scanFilesLeft - 1
    /\ scanFileNo' = scanFileNo + 1
    /\ UNCHANGED <<scanPc, linesLeft, lineNo, linesRead, findings, reported, scanOutcome,
                   scanStatus>>
    /\ UNCHANGED <<gkoVars, rerunVars, perfVars, policyVars>>

\* check_file: the content is read and split into its lines (at least one)
CheckFile ==
    /\ scanPc = "files"
    /\ scanFilesLeft > 0
    /\ scanFilesLeft' = scanFilesLeft - 1
    /\ scanFileNo' = scanFileNo + 1
    /\ \E n \in 1..MaxLines : linesLeft' = n
    /\ lineNo' = 0
    /\ scanPc' = "lines"
    /\ UNCHANGED <<linesRead, findings, reported, scanOutcome, scanStatus>>
    /\ UNCHANGED <<gkoVars, rerunVars, perfVars, policyVars>>

\* one iteration of `for line_num, line in enumerate(lines, 1)`
CheckLine ==
    /\ scanPc = "lines"
    /\ linesLeft > 0
    /\ lineNo' = lineNo + 1
    /\ linesLeft' = linesLeft - 1
    /\ linesRead' = linesRead + 1
    /\ \E line \in Lines :
          findings' = findings \o LineFindings(line, scanFileNo, lineNo + 1, 1)
    /\ UNCHANGED <<scanPc, scanFilesLeft, scanFileNo, reported, scanOutcome, scanStatus>>
    /\ UNCHANGED <<gkoVars, rerunVars, perfVars, policyVars>>

\* the loop over the lines is over
CheckFileDone ==
    /\ scanPc = "lines"
    /\ linesLeft = 0
    /\ scanPc' = "files"
    /\ UNCHANGED <<scanFilesLeft, scanFileNo, linesLeft, lineNo, linesRead, findings, reported,
                   scanOutcome, scanStatus>>
    /\ UNCHANGED <<gkoVars, rerunVars, perfVars, policyVars>>

\* exit_code = checker.print_results(); sys.exit(exit_code)
ScanPrintResults ==
    /\ scanPc = "files"
    /\ scanFilesLeft = 0
    /\ reported' = Unique(findings, {})
    /\ ScanTerminate("finished", IF findings = <<>> THEN 0 ELSE ExitCode(Unique(findings, {})))
    /\ UNCHANGED <<scanFilesLeft, scanFileNo, linesLeft, lineNo, linesRead, findings>>
    /\ UNCHANGED <<gkoVars, rerunVars, perfVars, policyVars>>

ScanNext ==
    \/ ScanUsage
    \/ ScanNotFound
    \/ CheckDirectory
    \/ CheckFileUnreadable
    \/ CheckFile
    \/ CheckLine
    \/ CheckFileDone
    \/ ScanPrintResults

ScanSpec == ScanInit /\ [][ScanNext]_vars

\* the descriptions of passwords, secrets, API keys, bearer tokens and
\* connection strings
NonCriticalDescriptions ==
    {"Possible hardcoded password", "Possible hardcoded secret",
     "Possible hardcoded API key", "Possible hardcoded bearer token",
     "MongoDB connection string with credentials",
     "PostgreSQL connection string with credentials",
     "MySQL connection string with credentials"}

\* the description contains 'Private key', 'AWS' or 'GitHub'
NamesCriticalData(description) ==
    \/ Contains(TextChars(description), <<"P","r","i","v","a","t","e"," ","k","e","y">>)
    \/ Contains(TextChars(description), <<"A","W","S">>)
    \/ Contains(TextChars(description), <<"G","i","t","H","u","b">>)

\* C18: a scan that ran to its report ends with exit status 1 exactly when a
\* reported finding's description contains 'Private key', 'AWS' or 'GitHub';
\* with no finding, or with findings about passwords, secrets, API keys,
\* bearer tokens and connection strings only, it ends with exit status 0.
C18_ExitOneOnlyForCritical ==
    scanOutcome = "finished" =>
        /\ scanStatus \in {0, 1}
        /\ scanStatus = 1 <=>
              \E i \in DOMAIN reported : NamesCriticalData(reported[i].description)
        /\ (\A i \in DOMAIN reported : reported[i].description \in NonCriticalDescriptions)
              => scanStatus = 0

C18_Witness ==
    /\ scanOutcome = "finished"
    /\ Len(reported) = 2
    /\ \A i \in DOMAIN reported : reported[i].description \in NonCriticalDescriptions
    /\ scanStatus = 0

\* the place of a finding's check in the stated order: required fields,
\* enums, structure, version format and cross-cutting checks
CheckRank(code) ==
    CASE code = "MissingRequiredField" -> 1
      [] code \in {"InvalidLifecycleState", "InvalidSecurityType", "InvalidPlanStatus"} -> 2
      [] code \in {"VirtualHostPath", "GroupNoEndpoints", "EndpointMissingTarget",
                   "EndpointTargetNotAbsolute", "FlowNoPath", "PolicyMissingType",
                   "PolicyNoConfiguration", "MissingAuthSecretRef"} -> 3
      [] code \in {"VersionNotSemver", "PayloadLogging", "PlanNoRateLimit"} -> 4
      [] OTHER -> 0

InStatedOrder(found) ==
    \A i, j \in DOMAIN found :
        i < j => CheckRank(found[i].code) <= CheckRank(found[j].code)

\* C19: the findings one document adds to a list stand in the order
\* required fields, enums, structure, version format and cross-cutting
\* checks, and the report prints both lists as they are.
C19_FindingsInStatedOrder ==
    /\ Evaluated => (InStatedOrder(NewErrors) /\ InStatedOrder(NewWarnings))
    /\ report # <<>> => (report[1].errors = errors /\ report[1].warnings = warnings)

IsPrefix(q, r) == Len(q) <= Len(r) /\ SubSeq(r, 1, Len(q)) = q

\* a definition without spec.version, and the error each evaluation of it adds
VersionlessDefinition == Definition(Vary(BaseDefinitionSpec, "version", Absent))
MissingVersion == Finding("MissingRequiredField", Str("api"), <<Path(<<"spec", "version">>)>>)

\* C20: every step leaves each list a prefix of its new value; each
\* evaluation of the same faulty resource adds its error once more, however
\* often the list holds it already; and the summary counts every entry of
\* both lists.
C20_FindingsOnlyAppended ==
    /\ [][/\ IsPrefix(errors, errors')
          /\ IsPrefix(warnings, warnings')
          /\ (evaluated' = evaluated + 1 /\ doc' = VersionlessDefinition)
                => CountFinding(errors', MissingVersion)
                      = CountFinding(errors, MissingVersion) + 1]_vars
    /\ [](report # <<>> =>
            /\ report[1].errors = errors
            /\ report[1].warnings = warnings
            /\ report[1].summary = <<Len(errors), Len(warnings)>>)

C20_Witness ==
    /\ pc = "done"
    /\ outcome = "finished"
    /\ errors = <<MissingVersion, MissingVersion>>
    /\ report[1].summary = <<2, 0>>

(***************************************************************************)
(* Severity and subject of the findings.                                    *)
(***************************************************************************)
\* the findings the last step appended, of either list
NewFindings ==
    {NewErrors[i] : i \in DOMAIN NewErrors} \cup {NewWarnings[i] : i \in DOMAIN NewWarnings}

\* C21: every finding has exactly one severity: no check puts a finding in
\* both lists, and a kind of finding that is an error is never a warning;
\* every finding of a document carries the metadata.name of that document, or
\* the default name when the document declares none (the finding of a file
\* that failed to decode is an error and carries the file).
C21_OneSeverityNamedAfterDocument ==
    /\ \A i \in DOMAIN errors, j \in DOMAIN warnings :
          /\ errors[i] # warnings[j]
          /\ errors[i].code # warnings[j].code
    /\ Evaluated => \A f \in NewFindings : f.subject = DocName(doc)
    /\ ~Evaluated => \A f \in NewFindings :
                        /\ f.subject \in {FilePath(i) : i \in 1..fileNo}
                        /\ f \notin {warnings[j] : j \in DOMAIN warnings}

\* after a resource without metadata.name left errors under the default name,
\* a named ApiDefinition has been evaluated and has added errors and warnings
C21_Witness ==
    /\ Evaluated
    /\ errBefore > 0
    /\ errors[1].subject = Str("unknown")
    /\ DocName(doc) = Str("api")
    /\ Len(NewErrors) > 0
    /\ Len(NewWarnings) > 0

(***************************************************************************)
(* Paths through values that are not maps.                                  *)
(***************************************************************************)
\* the path keys passes, before its last key, through a value the document
\* declares and that is a scalar or a sequence (a null is left aside)
TraversesNonMap(d, keys) ==
    \E n \in 1..(Len(keys) - 1) :
        LET v == Declared(d, SubSeq(keys, 1, n))
        IN  v # Absent /\ v.t \notin {"map", "null"}

\* C22: when a required path of an ApiDefinition or ApiPlan passes through a
\* value that is not a map, the path counts as absent: the evaluation appends
\* exactly one missing-field error naming the path, raises nothing, and the
\* run goes on with the remaining documents and files.
C22_NonMapPathIsAbsent ==
    (Evaluated /\ InNamespace(doc) /\ KindIn(doc, {"ApiDefinition", "ApiPlan"})
        /\ IsDict(DictGet(doc, "metadata", EmptyMap))) =>
        \A i \in DOMAIN RequiredPaths(doc) :
            LET p == RequiredPaths(doc)[i]
            IN  TraversesNonMap(doc, p) =>
                   /\ CountFinding(NewErrors,
                                   Finding("MissingRequiredField", DocName(doc), <<Path(p)>>))
                         = 1
                   /\ outcome # "traceback"
                   /\ pc = "docs"

(***************************************************************************)
(* The result of validate_file.                                             *)
(***************************************************************************)
\* a step in which a validate_file call returns to main(): from the loop over
\* the documents, or from the YAMLError handler
Returns == pc' = "files" /\ (pc = "docs" \/ fileNo' = fileNo + 1)

\* C24: a validate_file call returns True exactly when the error list of the
\* validator is empty after the call, and the result is cumulative: after
\* a call has returned False every later call on the same validator returns
\* False, also for a file that adds no error itself.
C24_ReturnIsCumulative ==
    /\ [][Returns => /\ lastReturn' \in {"True", "False"}
                     /\ lastReturn' = "True" <=> errors' = <<>>]_vars
    /\ [][(Returns /\ lastReturn = "False") => lastReturn' = "False"]_vars
    /\ [][lastReturn' # lastReturn => Returns]_vars

\* the first file failed to decode; the second decoded, a document of it was
\* evaluated and added no error, and the call returned False
C24_Witness ==
    /\ pc = "files"
    /\ fileNo = 2
    /\ decodeFailures = 1
    /\ evaluated > 0
    /\ errors = <<Finding("YAMLParsingError", FilePath(1), <<>>)>>
    /\ lastReturn = "False"

(***************************************************************************)
(* validate-policies.py: PolicyValidator.  An issue is a dict with the keys *)
(* api, severity, message and file; the message is kept as the kind of the  *)
(* issue and the value it interpolates.                                     *)
(***************************************************************************)
Issue(api, severity, message, arg, file) ==
    [api |-> api, severity |-> severity, message |-> message, arg |-> arg, file |-> file]

\* what a piece of the validator did: the issues it appended to self.issues
\* and whether it ended by raising
Checked(found, exc) == [found |-> found, exc |-> exc]
NoIssue == Checked(<<>>, FALSE)
PolicyRaise == Checked(<<>>, TRUE)
Record(issue) == Checked(<<issue>>, FALSE)

\* r1 ; r2 -- r2 runs only if r1 did not raise
AndThen(r1, r2) ==
    IF r1.exc THEN r1 ELSE Checked(r1.found \o r2.found, r2.exc)

\* the header names line 85 looks for
SECURITY_HEADERS == {"X-Content-Type-Options", "X-Frame-Options", "Strict-Transport-Security"}

\* str.lower(), on characters
Lower(c) ==
    LET upper == <<"A","B","C","D","E","F","G","H","I","J","K","L","M","N","O","P","Q",
                   "R","S","T","U","V","W","X","Y","Z">>
        lower == <<"a","b","c","d","e","f","g","h","i","j","k","l","m","n","o","p","q",
                   "r","s","t","u","v","w","x","y","z">>
    IN  [i \in DOMAIN c |->
            IF \E k \in DOMAIN upper : upper[k] = c[i]
            THEN lower[CHOOSE k \in DOMAIN upper : upper[k] = c[i]]
            ELSE c[i]]

\* the loop over the flows: all_policies, extended with the pre and the post
\* policies of each flow; flow.get raises on a flow that is not a dict, and
\* list.extend on a value that is not iterable
RECURSIVE CollectPolicies(_)
CollectPolicies(flows) ==
    IF flows = <<>> THEN [l |-> <<>>, exc |-> FALSE]
    ELSE LET flow == Head(flows)
         IN  IF ~IsDict(flow) THEN [l |-> <<>>, exc |-> TRUE]
             ELSE LET pre_policies == DictGet(flow, "pre", EmptyList)
                      post_policies == DictGet(flow, "post", EmptyList)
                  IN  IF ~Iterable(pre_policies) \/ ~Iterable(post_policies)
                      THEN [l |-> <<>>, exc |-> TRUE]
                      ELSE LET rest == CollectPolicies(Tail(flows))
                           IN  [l |-> Items(pre_policies) \o Items(post_policies) \o rest.l,
                                exc |-> rest.exc]

\* 'type' in policy_types
HasPolicyType(policy_types, type) ==
    \E i \in DOMAIN policy_types : EqStr(policy_types[i], type)

\* can `limit > 100` be evaluated?  (numbers and booleans compare with an
\* int; None, strings, lists and dicts raise TypeError)
Comparable(v) == v.t \in {"num", "bool"}
NumberOf(v) == IF v.t = "num" THEN v.n ELSE IF v.b THEN 1 ELSE 0

(***************************************************************************)
(* PolicyValidator._validate_rate_limit                                     *)
(***************************************************************************)
ValidateRateLimit(policy, api_name, file_path) ==
    LET config == DictGet(policy, "configuration", EmptyMap)
    IN  IF ~IsDict(config) THEN PolicyRaise
        ELSE LET rate == DictGet(config, "rate", EmptyMap)
             IN  IF ~IsDict(rate) THEN PolicyRaise
                 ELSE LET limit == DictGet(rate, "limit", Num(0))
                          period_unit == DictGet(rate, "periodTimeUnit", Str("SECONDS"))
                      IN  IF EqStr(period_unit, "SECONDS")
                          THEN IF ~Comparable(limit) THEN PolicyRaise
                               ELSE IF NumberOf(limit) > 100
                               THEN Record(Issue(api_name, "warning", "VeryHighRateLimit",
                                                 <<limit>>, file_path))
                               ELSE NoIssue
                          ELSE IF EqStr(period_unit, "MINUTES")
                          THEN IF ~Comparable(limit) THEN PolicyRaise
                               ELSE IF NumberOf(limit) < 5
                               THEN Record(Issue(api_name, "info", "LowRateLimit",
                                                 <<limit>>, file_path))
                               ELSE NoIssue
                          ELSE NoIssue

(***************************************************************************)
(* PolicyValidator._validate_api_definition                                 *)
(***************************************************************************)
\* "Check rate limit configuration": every rate-limit policy, in order
RECURSIVE RateLimitConfiguration(_, _, _)
RateLimitConfiguration(policies, api_name, file_path) ==
    IF policies = <<>> THEN NoIssue
    ELSE AndThen(IF EqStr(DictGet(Head(policies), "policy", Null), "rate-limit")
                 THEN ValidateRateLimit(Head(policies), api_name, file_path)
                 ELSE NoIssue,
                 RateLimitConfiguration(Tail(policies), api_name, file_path))

\* the loop over add_headers: "found" at the first security header (break),
\* "raise" at a header that is not a dict, "none" at the end of the list
RECURSIVE ScanHeaders(_)
ScanHeaders(headers) ==
    IF headers = <<>> THEN "none"
    ELSE IF ~IsDict(Head(headers)) THEN "raise"
    ELSE IF InList(DictGet(Head(headers), "name", Null), SECURITY_HEADERS) THEN "found"
    ELSE ScanHeaders(Tail(headers))

\* the loop over all_policies that computes has_security_headers
RECURSIVE SecurityHeaders(_, _)
SecurityHeaders(policies, has_security_headers) ==
    IF policies = <<>> THEN [has |-> has_security_headers, exc |-> FALSE]
    ELSE IF ~EqStr(DictGet(Head(policies), "policy", Null), "transform-headers")
    THEN SecurityHeaders(Tail(policies), has_security_headers)
    ELSE LET config == DictGet(Head(policies), "configuration", EmptyMap)
         IN  IF ~IsDict(config) THEN [has |-> has_security_headers, exc |-> TRUE]
             ELSE LET add_headers == DictGet(config, "addHeaders", EmptyList)
                  IN  IF ~Iterable(add_headers)
                      THEN [has |-> has_security_headers, exc |-> TRUE]
                      ELSE LET scan == ScanHeaders(Items(add_headers))
                           IN  IF scan = "raise"
                               THEN [has |-> has_security_headers, exc |-> TRUE]
                               ELSE SecurityHeaders(Tail(policies),
                                        has_security_headers \/ scan = "found")

\* "Check for security headers"
SecurityHeadersCheck(policies, api_name, file_path) ==
    LET scan == SecurityHeaders(policies, FALSE)
    IN  IF scan.exc THEN PolicyRaise
        ELSE IF ~scan.has
        THEN Record(Issue(api_name, "info", "NoSecurityHeaders", <<>>, file_path))
        ELSE NoIssue

\* "Check for logging configuration"
LoggingCheck(spec, api_name, file_path) ==
    LET analytics == DictGet(spec, "analytics", EmptyMap)
    IN  IF ~IsDict(analytics) THEN PolicyRaise
        ELSE LET logging == DictGet(analytics, "logging", EmptyMap)
             IN  IF ~IsDict(logging) THEN PolicyRaise
                 ELSE IF ~EqStr(DictGet(logging, "content", Null), "PAYLOADS") THEN NoIssue
                 ELSE LET condition == DictGet(logging, "condition", Str(""))
                      IN  IF ~Truthy(condition) \/ EqStr(condition, "true")
                          THEN Record(Issue(api_name, "warning", "PayloadLoggingNoCondition",
                                            <<>>, file_path))
                          ELSE NoIssue

\* 'external' in target.lower() or not '.svc.cluster.local' in target
IsExternalTarget(target) ==
    LET external == <<"e","x","t","e","r","n","a","l">>
        cluster_local ==
            <<".","s","v","c",".","c","l","u","s","t","e","r",".","l","o","c","a","l">>
    IN  \/ Contains(Lower(Chars(target.s)), external)
        \/ ~Contains(Chars(target.s), cluster_local)

\* the loop over the endpoints of a group
RECURSIVE CircuitBreakerEndpoints(_, _, _, _)
CircuitBreakerEndpoints(endpoints, policy_types, api_name, file_path) ==
    IF endpoints = <<>> THEN NoIssue
    ELSE IF ~IsDict(Head(endpoints)) THEN PolicyRaise
    ELSE LET target == DictGet(Head(endpoints), "target", Str(""))
         IN  IF ~IsStr(target) THEN PolicyRaise
             ELSE AndThen(IF IsExternalTarget(target)
                             /\ ~HasPolicyType(policy_types, "circuit-breaker")
                          THEN Record(Issue(api_name, "info", "NoCircuitBreaker",
                                            <<target>>, file_path))
                          ELSE NoIssue,
                          CircuitBreakerEndpoints(Tail(endpoints), policy_types, api_name,
                                                  file_path))

\* "Check for circuit breaker on external calls": the loop over the groups
RECURSIVE CircuitBreakerGroups(_, _, _, _)
CircuitBreakerGroups(groups, policy_types, api_name, file_path) ==
    IF groups = <<>> THEN NoIssue
    ELSE IF ~IsDict(Head(groups)) THEN PolicyRaise
    ELSE LET endpoints == DictGet(Head(groups), "endpoints", EmptyList)
         IN  IF ~Iterable(endpoints) THEN PolicyRaise
             ELSE AndThen(CircuitBreakerEndpoints(Items(endpoints), policy_types, api_name,
                                                  file_path),
                          CircuitBreakerGroups(Tail(groups), policy_types, api_name,
                                               file_path))

CircuitBreakerCheck(spec, policy_types, api_name, file_path) ==
    LET proxy == DictGet(spec, "proxy", EmptyMap)
    IN  IF ~IsDict(proxy) THEN PolicyRaise
        ELSE LET groups == DictGet(proxy, "groups", EmptyList)
             IN  IF ~Iterable(groups) THEN PolicyRaise
                 ELSE CircuitBreakerGroups(Items(groups), policy_types, api_name, file_path)

PolicyValidateApiDefinition(document, file_path) ==
    LET metadata == DictGet(document, "metadata", EmptyMap)
        spec == DictGet(document, "spec", EmptyMap)
    IN  IF ~IsDict(metadata) \/ ~IsDict(spec) THEN PolicyRaise
        ELSE LET api_name == DictGet(metadata, "name", Str("unknown"))
                 flows == DictGet(spec, "flows", EmptyList)
             IN  IF ~Iterable(flows) THEN PolicyRaise
                 ELSE LET all_policies == CollectPolicies(Items(flows))
                      IN  IF all_policies.exc
                             \/ \E i \in DOMAIN all_policies.l : ~IsDict(all_policies.l[i])
                          THEN PolicyRaise
                          ELSE LET policy_types ==
                                       [i \in DOMAIN all_policies.l |->
                                           DictGet(all_policies.l[i], "policy", Null)]
                               IN  AndThen(
                                     IF ~HasPolicyType(policy_types, "rate-limit")
                                        /\ ~HasPolicyType(policy_types, "quota")
                                     THEN Record(Issue(api_name, "warning", "NoRateLimiting",
                                                       <<>>, file_path))
                                     ELSE NoIssue,
                                   AndThen(RateLimitConfiguration(all_policies.l, api_name,
                                                                  file_path),
                                   AndThen(SecurityHeadersCheck(all_policies.l, api_name,
                                                                file_path),
                                   AndThen(LoggingCheck(spec, api_name, file_path),
                                           CircuitBreakerCheck(spec, policy_types, api_name,
                                                               file_path)))))

(***************************************************************************)
(* PolicyValidator.validate_file: one iteration of the loop over documents  *)
(***************************************************************************)
\* `if doc and doc.get('kind') == 'ApiDefinition'`: a falsy document is
\* skipped, doc.get raises on a truthy document that is not a dict
PolicyValidateDocument(document, file_path) ==
    IF ~Truthy(document) THEN NoIssue
    ELSE IF ~IsDict(document) THEN PolicyRaise
    ELSE IF EqStr(DictGet(document, "kind", Null), "ApiDefinition")
    THEN PolicyValidateApiDefinition(document, file_path)
    ELSE NoIssue

(***************************************************************************)
(* The documents the runs of validate-policies.py draw from: ApiDefinitions *)
(* over the policies, rate-limit and header configurations, analytics and   *)
(* endpoint targets the checks distinguish, well and wrongly shaped; other  *)
(* resources; documents that are not maps.                                  *)
(***************************************************************************)
RatePolicy(rate) == PolicyEntry(Str("rate-limit"), Map(Vary(<<>>, "rate", rate)))
HeadersPolicy(headers) ==
    PolicyEntry(Str("transform-headers"), Map(Vary(<<>>, "addHeaders", headers)))
BreakerPolicy == PolicyEntry(Str("circuit-breaker"), Absent)
Header(name) == Map([name |-> Str(name), value |-> Str("v")])
Rate(limit, unit) == Map(Vary(Vary(<<>>, "limit", limit), "periodTimeUnit", unit))

RateValues ==
    {Absent, Null, Num(10)}
    \cup {Rate(l, u) : l \in {Absent, Num(100), Num(101)}, u \in {Absent, Str("SECONDS")}}
    \cup {Rate(l, Str("MINUTES")) : l \in {Absent, Num(4), Num(5), Str("x")}}
    \cup {Rate(Num(101), Str("HOURS")), Rate(Null, Absent), Rate(Str("x"), Str("HOURS")),
          Rate(Bool(TRUE), Absent)}

HeaderValues ==
    {Absent, Null, EmptyList,
     List(<<Header("X-Frame-Options")>>),
     List(<<Header("X-Other")>>),
     List(<<Header("X-Other"), Header("Strict-Transport-Security")>>),
     List(<<Str("x")>>),
     List(<<Header("X-Content-Type-Options"), Str("x")>>)}

PoliciesOfFlow ==
    {Absent, Null, EmptyList, List(<<Str("x")>>), List(<<QuotaPolicy>>),
     List(<<BreakerPolicy>>), List(<<PolicyEntry(Str("rate-limit"), Null)>>),
     List(<<PolicyEntry(Absent, Absent)>>)}
    \cup {List(<<RatePolicy(r)>>) : r \in RateValues}
    \cup {List(<<QuotaPolicy, HeadersPolicy(h)>>) : h \in HeaderValues}

AnalyticsValues ==
    {Absent, Null, EmptyMap, Map([logging |-> Null]),
     Map([logging |-> Map([content |-> Str("PAYLOADS")])]),
     Map([logging |-> Map([content |-> Str("PAYLOADS"), condition |-> Str("true")])]),
     Map([logging |-> Map([content |-> Str("PAYLOADS"), condition |-> Str("x")])]),
     Map([logging |-> Map([content |-> Str("HEADERS")])])}

TargetValues ==
    {Absent, Null, Str(""), Str("http://b"), Str("http://a.svc.cluster.local"),
     Str("http://External.svc.cluster.local"), Num(1)}

\* an ApiDefinition with one flow and one endpoint
PolicyDefinition(pre, post, analytics, target) ==
    Definition(Vary(With(With(BaseDefinitionSpec, "proxy",
                              Map([groups |-> List(<<GroupEntry(List(<<EndpointEntry(target)>>))>>)])),
                         "flows", List(<<FlowEntry(PathOperator, pre, post)>>)),
                    "analytics", analytics))

\* a rate limit within the bounds, a security header, a circuit breaker
AdvisedPolicies ==
    List(<<RatePolicy(Rate(Num(100), Absent)), HeadersPolicy(List(<<Header("X-Frame-Options")>>)),
           BreakerPolicy>>)

PolicyDocs ==
    {PolicyDefinition(pre, Absent, Absent, Str("http://b")) : pre \in PoliciesOfFlow}
    \cup {PolicyDefinition(Absent, post, Absent, Str("http://a.svc.cluster.local")) :
            post \in {Null, List(<<RatePolicy(Rate(Num(101), Absent))>>), AdvisedPolicies}}
    \cup {PolicyDefinition(AdvisedPolicies, Absent, a, Str("http://b")) : a \in AnalyticsValues}
    \cup {PolicyDefinition(List(<<QuotaPolicy>>), List(<<b>>), Absent, t) :
            b \in {CorsPolicy, BreakerPolicy}, t \in TargetValues}
    \cup {Resource(a, k, m, Absent) :
            a \in {Absent, GKOApiVersion}, k \in {Absent, Null, Str("ApiDefinition"), Str("ApiPlan")},
            m \in {Absent, Null, EmptyMap, NamedMetadata}}
    \cup {Resource(GKOApiVersion, Str("ApiDefinition"), NamedMetadata, s) :
            s \in {Null, Str("x"), EmptyMap, Map([flows |-> Null]), Map([flows |-> Str("x")]),
                   Map([flows |-> List(<<Str("x")>>)]), Map([proxy |-> Null]),
                   Map([proxy |-> Map([groups |-> Null])]),
                   Map([proxy |-> Map([groups |-> List(<<Str("x")>>)])]),
                   Map([proxy |-> Map([groups |-> List(<<GroupEntry(Null)>>)])]),
                   Map([proxy |-> Map([groups |-> List(<<GroupEntry(List(<<Str("x")>>))>>)])])}}
    \cup NonMapDocs \cup {EmptyMap, Str(""), Num(0), Bool(FALSE), Bool(TRUE)}

(***************************************************************************)
(* validate-policies.py: the run of main().                                 *)
(***************************************************************************)
\* a new process of validate-policies.py, before main() looks at sys.argv
PolicyInit ==
    /\ ProcessStart /\ SingleRun /\ PerfIdle /\ ScanIdle
    /\ policyPc = "main"
    /\ policyFilesLeft = 0
    /\ policyFileNo = 0
    /\ policyDocsLeft = 0
    /\ policyDoc = NoDoc
    /\ issues = <<>>
    /\ policyEvaluated = 0
    /\ policySkipped = 0
    /\ policyReport = <<>>
    /\ policyOutcome = "running"
    /\ policyStatus = -1

\* sys.exit(status), the end of main(), or the interpreter ending on an
\* uncaught exception
PolicyTerminate(how, status) ==
    /\ policyPc' = "done"
    /\ policyOutcome' = how
    /\ policyStatus' = status

\* len(sys.argv) < 2
PolicyUsage ==
    /\ policyPc = "main"
    /\ PolicyTerminate("usage", 1)
    /\ UNCHANGED <<policyFilesLeft, policyFileNo, policyDocsLeft, policyDoc, issues,
                   policyEvaluated, policySkipped, policyReport>>
    /\ UNCHANGED <<gkoVars, rerunVars, perfVars, scanVars>>

\* not directory.exists()
PolicyNotFound ==
    /\ policyPc = "main"
    /\ PolicyTerminate("not_found", 1)
    /\ UNCHANGED <<policyFilesLeft, policyFileNo, policyDocsLeft, policyDoc, issues,
                   policyEvaluated, policySkipped, policyReport>>
    /\ UNCHANGED <<gkoVars, rerunVars, perfVars, scanVars>>

\* validate_directory: the files directory.rglob('*.yaml') finds
ValidateDirectory ==
    /\ policyPc = "main"
    /\ \E n \in 0..MaxFiles : policyFilesLeft' = n
    /\ policyPc' = "files"
    /\ UNCHANGED <<policyFileNo, policyDocsLeft, policyDoc, issues, policyEvaluated,
                   policySkipped, policyReport, policyOutcome, policyStatus>>
    /\ UNCHANGED <<gkoVars, rerunVars, perfVars, scanVars>>

\* the next file of the loop
PolicyTakeFile ==
    /\ policyPc = "files"
    /\ policyFilesLeft > 0
    /\ policyFilesLeft' = policyFilesLeft - 1
    /\ policyFileNo' = policyFileNo + 1
    /\ policyDoc' = NoDoc

\* yaml.safe_load_all raises yaml.YAMLError: return
PolicyFileSkipped ==
    /\ PolicyTakeFile
    /\ policySkipped' = policySkipped + 1
    /\ UNCHANGED <<policyPc, policyDocsLeft, issues, policyEvaluated, policyReport,
                   policyOutcome, policyStatus>>
    /\ UNCHANGED <<gkoVars, rerunVars, perfVars, scanVars>>

\* open() or the read raises something that is not a yaml.YAMLError (OSError,
\* UnicodeDecodeError): no handler, the process ends with a traceback
PolicyFileReadError ==
    /\ PolicyTakeFile
    /\ PolicyTerminate("traceback", 1)
    /\ UNCHANGED <<policyDocsLeft, issues, policyEvaluated, policySkipped, policyReport>>
    /\ UNCHANGED <<gkoVars, rerunVars, perfVars, scanVars>>

\* the file decodes to n documents
PolicyFileDecoded ==
    /\ PolicyTakeFile
    /\ \E n \in 0..(MaxDocs - policyEvaluated) : policyDocsLeft' = n
    /\ policyPc' = "docs"
    /\ UNCHANGED <<issues, policyEvaluated, policySkipped, policyReport, policyOutcome,
                   policyStatus>>
    /\ UNCHANGED <<gkoVars, rerunVars, perfVars, scanVars>>

\* one iteration of `for doc in documents`; an exception raised under it is
\* caught nowhere and ends the process
PolicyEvaluateNextDocument ==
    /\ policyPc = "docs"
    /\ policyDocsLeft > 0
    /\ \E d \in PolicyDocs :
          LET r == PolicyValidateDocument(d, FilePath(policyFileNo))
          IN  /\ policyDoc' = d
              /\ issues' = issues \o r.found
              /\ IF r.exc
                 THEN PolicyTerminate("traceback", 1)
                 ELSE UNCHANGED <<policyPc, policyOutcome, policyStatus>>
    /\ policyDocsLeft' = policyDocsLeft - 1
    /\ policyEvaluated' = policyEvaluated + 1
    /\ UNCHANGED <<policyFilesLeft, policyFileNo, policySkipped, policyReport>>
    /\ UNCHANGED <<gkoVars, rerunVars, perfVars, scanVars>>

\* the loop over the documents is over
PolicyFileDone ==
    /\ policyPc = "docs"
    /\ policyDocsLeft = 0
    /\ policyPc' = "files"
    /\ policyDoc' = NoDoc
    /\ UNCHANGED <<policyFilesLeft, policyFileNo, policyDocsLeft, issues, policyEvaluated,
                   policySkipped, policyReport, policyOutcome, policyStatus>>
    /\ UNCHANGED <<gkoVars, rerunVars, perfVars, scanVars>>

\* the issues of one severity
OfSeverity(found, severity) == SelectSeq(found, LAMBDA i : i.severity = severity)

\* print_results: the three partitions and the summary line, or the line
\* that says there are no issues
PolicyPrinted(found) ==
    IF found = <<>> THEN [none |-> TRUE]
    ELSE [none |-> FALSE,
          errors |-> OfSeverity(found, "error"),
          warnings |-> OfSeverity(found, "warning"),
          infos |-> OfSeverity(found, "info"),
          summary |-> <<Len(OfSeverity(found, "error")), Len(OfSeverity(found, "warning")),
                        Len(OfSeverity(found, "info"))>>]

\* validator.print_results(), once every file has been validated
PolicyPrintResults ==
    /\ policyPc = "files"
    /\ policyFilesLeft = 0
    /\ policyReport' = <<PolicyPrinted(issues)>>
    /\ policyPc' = "exit"
    /\ UNCHANGED <<policyFilesLeft, policyFileNo, policyDocsLeft, policyDoc, issues,
                   policyEvaluated, policySkipped, policyOutcome, policyStatus>>
    /\ UNCHANGED <<gkoVars, rerunVars, perfVars, scanVars>>

\* "Exit with error if there are errors": sys.exit(1), else main() returns
PolicyExitStatus(found) == IF OfSeverity(found, "error") # <<>> THEN 1 ELSE 0

PolicyExit ==
    /\ policyPc = "exit"
    /\ PolicyTerminate("finished", PolicyExitStatus(issues))
    /\ UNCHANGED <<policyFilesLeft, policyFileNo, policyDocsLeft, policyDoc, issues,
                   policyEvaluated, policySkipped, policyReport>>
    /\ UNCHANGED <<gkoVars, rerunVars, perfVars, scanVars>>

PolicyNext ==
    \/ PolicyUsage
    \/ PolicyNotFound
    \/ ValidateDirectory
    \/ PolicyFileSkipped
    \/ PolicyFileReadError
    \/ PolicyFileDecoded
    \/ PolicyEvaluateNextDocument
    \/ PolicyFileDone
    \/ PolicyPrintResults
    \/ PolicyExit

PolicySpec == PolicyInit /\ [][PolicyNext]_vars

\* a run that got past the argument and path checks and has ended
PolicyRunEnded == policyPc = "done" /\ policyOutcome \in {"finished", "traceback"}

\* C23: validate-policies never records an issue of severity error: every
\* issue is a warning or an info; a file that fails to decode is skipped
\* without an issue; and so every run on an existing directory, whatever the
\* files under it hold, ends with exit status 0.  (A file that cannot be read
\* at all is left aside.)
C23_AdvisoryOnlyExitsZero ==
    /\ [](\A i \in DOMAIN issues : issues[i].severity \in {"warning", "info"})
    /\ [][policySkipped' # policySkipped => (issues' = issues /\ policyPc' = "files")]_vars
    /\ []((PolicyRunEnded /\ ~(policyOutcome = "traceback" /\ policyDoc = NoDoc))
             => policyStatus = 0)

====
